---- MODULE Spec2Model ----
(***************************************************************************)
(* ncsa/jupyterhub-metrics, history/import_from_influxdb_v1.py (and the    *)
(* v2 variant): the time-windowed import of container observations from    *)
(* InfluxDB into PostgreSQL/TimescaleDB.                                    *)
(*                                                                         *)
(* Python strings are sequences of one-character strings, so that the      *)
(* prefix test, the slices and the splits of the code are computed.        *)
(* Times are integers (one unit = one sampling interval).  A "time" value  *)
(* of a raw sample is the record [sec, fmt]: the instant and the way the   *)
(* ISO string spells its offset ("Z" or "+00:00"), or NoTime when the key  *)
(* is missing or empty.                                                    *)
(***************************************************************************)
EXTENDS Integers, Sequences, FiniteSets, TLC

(***************************************************************************)
(* Bounds of the model.                                                    *)
(***************************************************************************)
MaxTime == 3          \* range endpoints are in 0..MaxTime, sample times in 0..MaxTime-1
MaxWindow == 2        \* window_size_seconds is in 1..MaxWindow
MaxSamples == 2       \* number of rows the source holds
MaxBatch == 3         \* length of a batch handed to transform_records on its own
MaxFaults == 1        \* calls that raise in one run of the program
MaxRuns == 2          \* runs of the program against the same store
MaxBatchV2 == 2       \* length of a batch handed to the v2 transform_records
MaxName == 3          \* length of the user part of a pod name
MaxRef == 5           \* length of an image reference

(***************************************************************************)
(* Strings.                                                                *)
(***************************************************************************)
S_jupyter == <<"j","u","p","y","t","e","r","-">>
S_unknown == <<"u","n","k","n","o","w","n">>
S_latest == <<"l","a","t","e","s","t">>
S_domain == <<"@","i","l","l","i","n","o","i","s",".","e","d","u">>
S_domain_v2 == <<"@","i","l","i","n","o","i","s",".","e","d","u">>
S_unknown_user == <<"U","n","k","n","o","w","n"," ","U","s","e","r">>
S_none == <<>>

LowerCase == <<"a","b","c","d","e","f","g","h","i","j","k","l","m",
               "n","o","p","q","r","s","t","u","v","w","x","y","z">>
UpperCase == <<"A","B","C","D","E","F","G","H","I","J","K","L","M",
               "N","O","P","Q","R","S","T","U","V","W","X","Y","Z">>

RangeOf(s) == {s[k] : k \in DOMAIN s}
IsLower(c) == c \in RangeOf(LowerCase)
IsUpper(c) == c \in RangeOf(UpperCase)
ToUpper(c) == IF IsLower(c)
              THEN UpperCase[CHOOSE k \in DOMAIN LowerCase : LowerCase[k] = c]
              ELSE c
ToLower(c) == IF IsUpper(c)
              THEN LowerCase[CHOOSE k \in DOMAIN UpperCase : UpperCase[k] = c]
              ELSE c

\* str.startswith
startswith(s, p) == Len(s) >= Len(p) /\ SubSeq(s, 1, Len(p)) = p
\* s[n:]
SliceFrom(s, n) == SubSeq(s, n + 1, Len(s))
\* c in s
Contains(s, c) == \E k \in DOMAIN s : s[k] = c
LastIndexOf(s, c) == CHOOSE k \in DOMAIN s :
                        s[k] = c /\ \A m \in DOMAIN s : s[m] = c => m <= k
FirstIndexOf(s, c) == CHOOSE k \in DOMAIN s :
                        s[k] = c /\ \A m \in DOMAIN s : s[m] = c => m >= k
\* s.rsplit(c, 1): one part when c does not occur, else the text before and
\* after the last c
rsplit1(s, c) == IF Contains(s, c)
                 THEN <<SubSeq(s, 1, LastIndexOf(s, c) - 1),
                        SubSeq(s, LastIndexOf(s, c) + 1, Len(s))>>
                 ELSE <<s>>
\* s.split(c)[-1]
SplitLast(s, c) == IF Contains(s, c)
                   THEN SubSeq(s, LastIndexOf(s, c) + 1, Len(s))
                   ELSE s
\* s.replace(a, b) for single characters
Replace(s, a, b) == [k \in DOMAIN s |-> IF s[k] = a THEN b ELSE s[k]]
\* str.title(): a cased character is upper-cased when it follows an uncased
\* one (or starts the string) and lower-cased otherwise
Title(s) == [k \in DOMAIN s |->
               IF k = 1 \/ ~(IsLower(s[k - 1]) \/ IsUpper(s[k - 1]))
               THEN ToUpper(s[k])
               ELSE ToLower(s[k])]
\* SQL split_part(s, c, 1)
split_part1(s, c) == IF Contains(s, c)
                     THEN SubSeq(s, 1, FirstIndexOf(s, c) - 1)
                     ELSE s
\* x or y on strings: the empty string and None are both false
OrElse(x, y) == IF x = S_none THEN y ELSE x

(***************************************************************************)
(* Timestamps.                                                             *)
(***************************************************************************)
NoTime == [sec |-> 0, fmt |-> "none"]
TimeZ(t) == [sec |-> t, fmt |-> "Z"]
TimeOffset(t) == [sec |-> t, fmt |-> "+00:00"]
\* datetime.fromisoformat(s.replace("Z", "+00:00")): both spellings are the
\* same instant
fromisoformat(ts) == ts.sec

Min2(a, b) == IF a <= b THEN a ELSE b
Max2(a, b) == IF a >= b THEN a ELSE b
RECURSIVE SeqMin(_)
SeqMin(s) == IF Len(s) = 1 THEN s[1] ELSE Min2(s[1], SeqMin(Tail(s)))

(***************************************************************************)
(* generate_time_windows                                                   *)
(***************************************************************************)
RECURSIVE generate_loop(_, _, _, _)
generate_loop(current, stop, window_size_seconds, acc) ==
    IF current < stop
    THEN LET window_end == Min2(current + window_size_seconds, stop)
         IN generate_loop(window_end, stop, window_size_seconds,
                          Append(acc, <<current, window_end>>))
    ELSE acc

\* a variant that does not clip the last window at stop
RECURSIVE generate_unclipped(_, _, _)
generate_unclipped(start, stop, window_size_seconds) ==
    IF start < stop
    THEN <<<<start, start + window_size_seconds>>>>
         \o generate_unclipped(start + window_size_seconds, stop,
                               window_size_seconds)
    ELSE <<>>

generate_time_windows(start, stop, window_size_seconds) ==
    generate_loop(start, stop, window_size_seconds, <<>>)

(***************************************************************************)
(* Raw samples: the rows query_influxdb returns.  A missing or empty       *)
(* string value is S_none.                                                 *)
(***************************************************************************)
P_ax == <<"j","u","p","y","t","e","r","-","a","-","x">>
P_ay == <<"j","u","p","y","t","e","r","-","a","-","y">>
P_bx == <<"j","u","p","y","t","e","r","-","b","-","x">>
P_hub == <<"h","u","b">>
N_node == <<"n","1">>
I_image == <<"r","/","i",":","v">>

Sample(ts, pod) == [time |-> ts, pod_name |-> pod, node_name |-> N_node,
                    image |-> I_image, version |-> S_none]

(***************************************************************************)
(* extract_user_info_from_pod_name, extract_container_info                 *)
(***************************************************************************)
extract_user_info_from_pod_name(pod_name) ==
    IF pod_name = S_none
    THEN [email |-> S_unknown \o S_domain, name |-> S_unknown_user]
    ELSE IF startswith(pod_name, S_jupyter)
    THEN LET username_part == SliceFrom(pod_name, 8)
             username == rsplit1(username_part, "-")[1]
         IN [email |-> username \o S_domain,
             name |-> Title(Replace(username, "-", " "))]
    ELSE [email |-> S_unknown \o S_domain, name |-> S_unknown_user]

\* a variant that takes the version after the first colon
extract_container_info_first_colon(container_name) ==
    LET base0 == split_part1(container_name, ":")
        version == IF Contains(container_name, ":")
                   THEN SliceFrom(container_name, FirstIndexOf(container_name, ":"))
                   ELSE S_latest
        base == IF Contains(base0, "/") THEN SplitLast(base0, "/") ELSE base0
    IN [base |-> base, version |-> version]

extract_container_info(container_name) ==
    LET parts == rsplit1(container_name, ":")
        base0 == parts[1]
        version == IF Contains(container_name, ":") THEN parts[2] ELSE S_latest
        base == IF Contains(base0, "/") THEN SplitLast(base0, "/") ELSE base0
    IN [base |-> base, version |-> version]

(***************************************************************************)
(* estimate_pod_age: the time since the earliest row of the pod in the     *)
(* batch.  It reads r["time"] of every row of the pod, also of the rows    *)
(* the caller skipped for having no time, and raises on such a row.        *)
(***************************************************************************)
PodRecords(pod_name, all_records) ==
    SelectSeq(all_records, LAMBDA r : r.pod_name = pod_name)

estimate_raises(pod_name, all_records) ==
    \E k \in DOMAIN all_records :
        all_records[k].pod_name = pod_name /\ all_records[k].time = NoTime

\* a variant that leaves the age at 0
estimate_pod_age_zero(timestamp, pod_name, all_records) == 0

estimate_pod_age(timestamp, pod_name, all_records) ==
    LET pod_records == PodRecords(pod_name, all_records)
        times == [k \in DOMAIN pod_records |-> fromisoformat(pod_records[k].time)]
    IN IF pod_records # <<>>
       THEN fromisoformat(timestamp) - SeqMin(times)
       ELSE 0

(***************************************************************************)
(* transform_records.  The loop state is the list built so far, the two    *)
(* skip counters, the set of (pod, timestamp string) keys seen, and        *)
(* whether an exception left the loop.                                     *)
(***************************************************************************)
TransformStart == [transformed |-> <<>>, skipped_no_pod_name |-> 0,
                   skipped_not_jupyter |-> 0, seen_keys |-> {}, raised |-> FALSE]

transform_one(st, record, records) ==
    LET timestamp_str == record.time
        pod_name == OrElse(record.pod_name, S_unknown)
        node_name == OrElse(record.node_name, S_unknown)
        image == OrElse(record.image, S_unknown)
        version_from_tag == record.version
        record_key == <<pod_name, timestamp_str>>
        user_info == extract_user_info_from_pod_name(pod_name)
        container_info == extract_container_info(image)
        final_version == OrElse(version_from_tag, container_info.version)
    IN IF st.raised THEN st
       ELSE IF timestamp_str = NoTime THEN st
       ELSE IF pod_name = S_unknown
       THEN [st EXCEPT !.skipped_no_pod_name = @ + 1]
       ELSE IF ~startswith(pod_name, S_jupyter)
       THEN [st EXCEPT !.skipped_not_jupyter = @ + 1]
       ELSE IF record_key \in st.seen_keys THEN st
       ELSE IF estimate_raises(pod_name, records)
       THEN [st EXCEPT !.raised = TRUE]
       ELSE [st EXCEPT
               !.seen_keys = @ \cup {record_key},
               !.transformed = Append(@,
                  [timestamp |-> fromisoformat(timestamp_str),
                   user_email |-> user_info.email,
                   user_name |-> user_info.name,
                   node_name |-> node_name,
                   container_image |-> image,
                   container_base |-> container_info.base,
                   container_version |-> final_version,
                   age_seconds |-> estimate_pod_age(timestamp_str, pod_name, records),
                   pod_name |-> pod_name])]

RECURSIVE transform_loop(_, _, _)
transform_loop(st, k, records) ==
    IF k > Len(records) THEN st
    ELSE transform_loop(transform_one(st, records[k], records), k + 1, records)

\* a variant that forgets the two counted skips
transform_stats_unskipped(st, records) ==
    [transformed |-> Len(st.transformed),
     skipped_no_pod_name |-> st.skipped_no_pod_name,
     skipped_not_jupyter |-> st.skipped_not_jupyter,
     duplicates_in_batch |-> Len(records) - Len(st.transformed)]
\* the statistics of lines 478-486: the duplicates are what is left of the
\* input after the emitted rows and the two counted skips
transform_stats(st, records) ==
    [transformed |-> Len(st.transformed),
     skipped_no_pod_name |-> st.skipped_no_pod_name,
     skipped_not_jupyter |-> st.skipped_not_jupyter,
     duplicates_in_batch |-> Len(records) - Len(st.transformed)
                             - st.skipped_no_pod_name - st.skipped_not_jupyter]

NoStats == [transformed |-> 0, skipped_no_pod_name |-> 0,
            skipped_not_jupyter |-> 0, duplicates_in_batch |-> 0]

transform_records(records) ==
    LET st == transform_loop(TransformStart, 1, records)
    IN IF st.raised
       THEN [raised |-> TRUE, transformed |-> <<>>, stats |-> NoStats]
       ELSE [raised |-> FALSE, transformed |-> st.transformed,
             stats |-> transform_stats(st, records)]

(***************************************************************************)
(* The v2 importer (import_from_influxdb_v2.py).  Its query returns rows   *)
(* whose time is a datetime (an integer here) and whose missing tags are   *)
(* "unknown"; its transform_records first finds the earliest time of every *)
(* pod of the batch and then emits a row for every sample that is running. *)
(***************************************************************************)
S_running == <<"r","u","n","n","i","n","g">>
S_Running == <<"R","u","n","n","i","n","g">>
S_waiting == <<"w","a","i","t","i","n","g">>
S_tag == <<"t">>
\* a pod that the default --pod-filter (/jupyter/) lets through and that is
\* no user's server
P_jhub == <<"j","u","p","y","t","e","r","h","u","b">>

lower(s) == [k \in DOMAIN s |-> ToLower(s[k])]

SampleV2(t, pod, state, phase, version) ==
    [time |-> t, pod_name |-> pod, node_name |-> N_node, image |-> I_image,
     version |-> version, state |-> state, phase |-> phase]

extract_user_info_from_pod_name_v2(pod_name) ==
    IF startswith(pod_name, S_jupyter)
    THEN LET username_part == SliceFrom(pod_name, 8)
             username == rsplit1(username_part, "-")[1]
         IN [email |-> username \o S_domain_v2,
             name |-> Title(Replace(username, "-", " "))]
    ELSE [email |-> S_unknown \o S_domain_v2, name |-> S_unknown_user]

\* the first pass: pod_first_seen[pod_name] after the rows 1..k
RECURSIVE pod_first_seen(_, _, _)
pod_first_seen(records, k, pod_name) ==
    IF k = 0 THEN -1
    ELSE LET before == pod_first_seen(records, k - 1, pod_name)
             record == records[k]
         IN IF record.pod_name # pod_name THEN before
            ELSE IF before = -1 THEN record.time
            ELSE IF record.time < before THEN record.time
            ELSE before

\* the second pass, one row
transform_one_v2(transformed, record, records) ==
    LET timestamp == record.time
        pod_name == record.pod_name
        node_name == record.node_name
        image == record.image
        version_from_tag == record.version
        state == lower(record.state)
        phase == lower(record.phase)
        user_info == extract_user_info_from_pod_name_v2(pod_name)
        container_info == extract_container_info(image)
        final_version == IF version_from_tag # S_none /\ version_from_tag # S_unknown
                         THEN version_from_tag
                         ELSE container_info.version
        first_seen == pod_first_seen(records, Len(records), pod_name)
    IN IF state # S_running /\ phase # S_running THEN transformed
       ELSE Append(transformed,
              [timestamp |-> timestamp,
               user_email |-> user_info.email,
               user_name |-> user_info.name,
               node_name |-> node_name,
               container_image |-> image,
               container_base |-> container_info.base,
               container_version |-> final_version,
               age_seconds |-> timestamp - first_seen,
               pod_name |-> pod_name])

RECURSIVE transform_loop_v2(_, _, _)
transform_loop_v2(transformed, k, records) ==
    IF k > Len(records) THEN transformed
    ELSE transform_loop_v2(transform_one_v2(transformed, records[k], records),
                           k + 1, records)

transform_records_v2(records) == transform_loop_v2(<<>>, 1, records)

(***************************************************************************)
(* extract_users_from_batch: email -> user_id, first_seen, last_seen.      *)
(* The result is the set of the dict's items.                              *)
(***************************************************************************)
\* a variant that cuts the user part at its first hyphen
user_id_first_part(pod_name) ==
    IF startswith(pod_name, S_jupyter)
    THEN split_part1(SliceFrom(pod_name, 8), "-")
    ELSE S_unknown

user_id_of(pod_name) ==
    IF startswith(pod_name, S_jupyter)
    THEN rsplit1(SliceFrom(pod_name, 8), "-")[1]
    ELSE S_unknown

RECURSIVE extract_users_loop(_, _, _)
extract_users_loop(users, k, transformed) ==
    IF k > Len(transformed) THEN users
    ELSE LET record == transformed[k]
             timestamp == record.timestamp
             user_email == record.user_email
             user_id == user_id_of(record.pod_name)
             known == {u \in users : u.email = user_email}
         IN IF known = {}
            THEN extract_users_loop(
                   users \cup {[email |-> user_email, user_id |-> user_id,
                                first_seen |-> timestamp, last_seen |-> timestamp]},
                   k + 1, transformed)
            ELSE extract_users_loop(
                   {IF u.email = user_email
                    THEN [u EXCEPT !.first_seen = Min2(@, timestamp),
                                   !.last_seen = Max2(@, timestamp)]
                    ELSE u : u \in users},
                   k + 1, transformed)

extract_users_from_batch(transformed) == extract_users_loop({}, 1, transformed)

(***************************************************************************)
(* The destination store as one connection sees it.  obs and users are the *)
(* committed tables; tx_obs and tx_users are the tables as seen inside the *)
(* connection's open transaction (committed rows plus its own pending      *)
(* writes).  commit publishes the view, rollback drops it.                 *)
(***************************************************************************)
SameKey(a, b) == /\ a.user_email = b.user_email
                 /\ a.pod_name = b.pod_name
                 /\ a.timestamp = b.timestamp

\* a variant whose conflicting row replaces the stored one
insert_row_replacing(table, row) ==
    {x \in table : ~SameKey(x, row)} \cup {row}
\* INSERT ... ON CONFLICT (user_email, pod_name, timestamp) DO NOTHING
insert_row(table, row) ==
    IF \E x \in table : SameKey(x, row) THEN table ELSE table \cup {row}

\* execute_batch over the first n rows of the batch
RECURSIVE execute_insert(_, _, _)
execute_insert(table, records, n) ==
    IF n = 0 THEN table
    ELSE insert_row(execute_insert(table, records, n - 1), records[n])

\* a variant whose DO UPDATE takes the new bounds as they come
upsert_row_overwriting(table, u) ==
    IF \E x \in table : x.email = u.email
    THEN {IF x.email = u.email
          THEN [x EXCEPT !.first_seen = u.first_seen,
                         !.last_seen = u.last_seen]
          ELSE x : x \in table}
    ELSE table \cup {[email |-> u.email, user_id |-> u.user_id,
                      full_name |-> split_part1(u.email, "@"),
                      first_seen |-> u.first_seen, last_seen |-> u.last_seen]}
\* a variant whose DO UPDATE also takes the new user_id and full_name
upsert_row_renaming(table, u) ==
    IF \E x \in table : x.email = u.email
    THEN {IF x.email = u.email
          THEN [x EXCEPT !.user_id = u.user_id,
                         !.full_name = split_part1(u.email, "@"),
                         !.first_seen = Min2(@, u.first_seen),
                         !.last_seen = Max2(@, u.last_seen)]
          ELSE x : x \in table}
    ELSE table \cup {[email |-> u.email, user_id |-> u.user_id,
                      full_name |-> split_part1(u.email, "@"),
                      first_seen |-> u.first_seen, last_seen |-> u.last_seen]}
\* INSERT INTO users ... ON CONFLICT (email) DO UPDATE SET first_seen =
\* LEAST(...), last_seen = GREATEST(...)
upsert_row(table, u) ==
    IF \E x \in table : x.email = u.email
    THEN {IF x.email = u.email
          THEN [x EXCEPT !.first_seen = Min2(@, u.first_seen),
                         !.last_seen = Max2(@, u.last_seen)]
          ELSE x : x \in table}
    ELSE table \cup {[email |-> u.email, user_id |-> u.user_id,
                      full_name |-> split_part1(u.email, "@"),
                      first_seen |-> u.first_seen, last_seen |-> u.last_seen]}

\* execute_batch over the items of the users dict (their emails differ, so
\* the order does not matter); `done` of them have been executed
RECURSIVE execute_upsert(_, _)
execute_upsert(table, user_data) ==
    IF user_data = {} THEN table
    ELSE LET u == CHOOSE x \in user_data : TRUE
         IN execute_upsert(upsert_row(table, u), user_data \ {u})

\* a variant that leaves the pending writes in the transaction
rollback_nothing(committed, view) == view
\* conn.rollback(): the transaction's view falls back to the committed table
rollback(committed, view) == committed

(***************************************************************************)
(* The clock.  Only the minute of the hour is read.  Minutes 4..57 behave  *)
(* as minute 3 does and are left out: after 3 comes 58.                    *)
(***************************************************************************)
ClockValues == {58, 59, 0, 1, 2, 3}
NextMinute(m) == IF m = 59 THEN 0 ELSE IF m = 3 THEN 58 ELSE m + 1

\* a variant that blocks only the minutes after the hour
blocked_after_hour(current_minute, minutes_before, minutes_after) ==
    current_minute <= minutes_after

blocked_at(current_minute, minutes_before, minutes_after) ==
    current_minute >= (60 - minutes_before) \/ current_minute <= minutes_after

(***************************************************************************)
(* State.                                                                  *)
(***************************************************************************)
VARIABLES
    source,       \* the rows InfluxDB holds, in the order a query returns them
    minute,       \* datetime.now(timezone.utc).minute
    args,         \* the parsed command line
    windows,      \* generate_time_windows(start_dt, stop_dt, window_seconds)
    pc,           \* where main is
    stdscr,       \* TRUE inside curses.wrapper, FALSE in run_import_loop(None)
    i,            \* the window run_import_loop is at (from 1)
    window_records, transformed, stats,
    all_records, total_containers_inserted, total_users_inserted, total_stats,
    containers_inserted,   \* what the last insert_records returned
    influx_open,  \* the source client is open
    pg_conn,      \* "none", "open" or "closed"
    autocommit,   \* pg_conn.autocommit
    exit_code,    \* the status of the process once pc = "exited"
    obs, users, tx_obs, tx_users,
    queries,      \* the queries of this run in call order: [w: window, ok: returned]
    sink_calls,   \* insert_records and upsert_users calls that reached the store
    transform_calls, \* the inputs transform_records was called with in this run
    refreshes,    \* the views this run refreshed, in the order of the statements
    interrupted,  \* a KeyboardInterrupt was delivered to this run
    faults,       \* the calls that raised so far, by name
    run,          \* which run of the program this is
    prev          \* the arguments and exit status of the run before

vars == <<source, minute, args, windows, pc, stdscr, i, window_records,
          transformed, stats, all_records, total_containers_inserted,
          total_users_inserted, total_stats, containers_inserted, influx_open,
          pg_conn, autocommit, exit_code, obs, users, tx_obs, tx_users, queries,
          sink_calls, transform_calls, refreshes, interrupted, faults, run, prev>>

envVars == <<source, args, windows, run, prev>>
storeVars == <<obs, users, tx_obs, tx_users>>
loopVars == <<window_records, transformed, stats, all_records,
              total_containers_inserted, total_users_inserted, total_stats,
              containers_inserted>>
connVars == <<influx_open, pg_conn, autocommit, exit_code>>
logVars == <<queries, sink_calls, transform_calls, refreshes>>

NoTotals == [skipped_no_pod_name |-> 0, skipped_not_jupyter |-> 0,
             duplicates_in_batch |-> 0]
NoRun == [args |-> [dry_run |-> FALSE, skip_time_check |-> FALSE, start |-> 0,
                    stop |-> 0, time_window |-> 1],
          exit_code |-> 0, completed |-> FALSE]

(***************************************************************************)
(* Initial states: a store, a source and a command line; main has not      *)
(* started.                                                                *)
(***************************************************************************)
\* The rows of the source.  A query returns its rows series by series (one
\* series per pod here) and each series in time order, so the source is a
\* sequence sorted by pod, then time.  A row may occur twice: two series
\* that differ in a tag the importer does not read (container_name).
DriverPods == <<P_ax, P_ay, P_hub>>
DriverSamples == {Sample(TimeZ(t), DriverPods[p]) :
                    t \in 0..(MaxTime - 1), p \in DOMAIN DriverPods}
SeriesOrder(r) ==
    (CHOOSE p \in DOMAIN DriverPods : DriverPods[p] = r.pod_name) * MaxTime
    + r.time.sec
Sources == {src \in UNION {[1..n -> DriverSamples] : n \in 0..MaxSamples} :
              \A k \in 1..(Len(src) - 1) :
                 SeriesOrder(src[k]) <= SeriesOrder(src[k + 1])}

\* --start is one of the first two instants, --stop any instant from it on
ArgsSet == {a \in [dry_run : BOOLEAN, skip_time_check : BOOLEAN,
                   start : 0..1, stop : 0..MaxTime,
                   time_window : 1..MaxWindow] : a.start <= a.stop}

\* the minute at which a run with the blackout check is started: the first
\* of the blocked minutes
StartMinutes == {59}

\* a process that has just been started
FreshProcess ==
    /\ pc = "start"
    /\ stdscr = FALSE
    /\ i = 0
    /\ windows = <<>>
    /\ window_records = <<>>
    /\ transformed = <<>>
    /\ stats = NoStats
    /\ all_records = <<>>
    /\ total_containers_inserted = 0
    /\ total_users_inserted = 0
    /\ total_stats = NoTotals
    /\ containers_inserted = 0
    /\ influx_open = FALSE
    /\ pg_conn = "none"
    /\ autocommit = FALSE
    /\ exit_code = 0
    /\ queries = <<>>
    /\ sink_calls = 0
    /\ transform_calls = <<>>
    /\ refreshes = <<>>
    /\ interrupted = FALSE

EmptyStore == obs = {} /\ users = {} /\ tx_obs = {} /\ tx_users = {}

InitRun ==
    /\ source \in Sources
    /\ args \in ArgsSet
    /\ minute \in IF args.skip_time_check THEN {3} ELSE StartMinutes
    /\ EmptyStore
    /\ run = 1
    /\ prev = NoRun
    /\ FreshProcess

Init == InitRun /\ faults = <<>>

(***************************************************************************)
(* main, lines 882-923: the windows, the source client, the destination    *)
(* connection of a live run.                                               *)
(***************************************************************************)
MainStart ==
    /\ pc = "start"
    /\ windows' = generate_time_windows(args.start, args.stop, args.time_window)
    /\ influx_open' = TRUE
    /\ pg_conn' = IF args.dry_run THEN "none" ELSE "open"
    /\ tx_obs' = obs
    /\ tx_users' = users
    /\ pc' = "wrapper"
    /\ UNCHANGED <<source, minute, args, stdscr, i, loopVars, autocommit,
                   exit_code, obs, users, logVars, interrupted, faults, run, prev>>

\* run_import_loop is entered: the for loop starts at the first window, or
\* falls through when there is none
EnterLoop ==
    /\ i' = 1
    /\ pc' = IF windows = <<>> THEN "loop_done" ELSE "blackout"

\* curses.wrapper(run_import_loop), line 1018
CursesStart ==
    /\ pc = "wrapper"
    /\ stdscr' = TRUE
    /\ EnterLoop
    /\ UNCHANGED <<source, minute, args, windows, loopVars, connVars, storeVars,
                   logVars, interrupted, faults, run, prev>>

\* curses cannot set the terminal up: the except Exception clause of line
\* 1025 calls run_import_loop(None)
CursesFails ==
    /\ pc = "wrapper"
    /\ stdscr' = FALSE
    /\ EnterLoop
    /\ UNCHANGED <<source, minute, args, windows, loopVars, connVars, storeVars,
                   logVars, interrupted, faults, run, prev>>

(***************************************************************************)
(* What an exception raised inside run_import_loop does (lines 1017-1039). *)
(* Under curses.wrapper the first except Exception clause catches it and   *)
(* runs the whole loop again without curses; the second except Exception   *)
(* clause of the same try is never reached.  In that second call nothing   *)
(* catches it: the finally clause closes the source client and the process *)
(* dies of the exception.                                                  *)
(***************************************************************************)
ExceptionInLoop ==
    IF stdscr
    THEN /\ stdscr' = FALSE
         /\ i' = 1
         /\ pc' = "blackout"
         /\ UNCHANGED <<influx_open, exit_code>>
    ELSE /\ pc' = "exited"
         /\ exit_code' = 1
         /\ influx_open' = FALSE
         /\ UNCHANGED <<stdscr, i>>

(***************************************************************************)
(* run_import_loop, lines 935-953: the blackout check before a window.     *)
(***************************************************************************)
is_in_blocked_time_window == blocked_at(minute, 1, 2)

BlackoutPass ==
    /\ pc = "blackout"
    /\ args.skip_time_check \/ ~is_in_blocked_time_window
    /\ pc' = "fetch"
    /\ UNCHANGED <<envVars, minute, stdscr, i, loopVars, connVars, storeVars,
                   logVars, interrupted, faults>>

\* time.sleep(5), during which the minute may change
BlackoutWait ==
    /\ pc = "blackout"
    /\ ~args.skip_time_check
    /\ is_in_blocked_time_window
    /\ minute' \in {minute, NextMinute(minute)}
    /\ UNCHANGED <<envVars, pc, stdscr, i, loopVars, connVars, storeVars,
                   logVars, interrupted, faults>>

(***************************************************************************)
(* query_influxdb for window i, lines 955-971                              *)
(***************************************************************************)
\* a variant whose window includes its end
query_influxdb_closed(window) ==
    SelectSeq(source, LAMBDA r : /\ fromisoformat(r.time) >= window[1]
                                 /\ fromisoformat(r.time) <= window[2])
query_influxdb(window) ==
    SelectSeq(source, LAMBDA r : /\ fromisoformat(r.time) >= window[1]
                                 /\ fromisoformat(r.time) < window[2])

\* a variant that does not look at --dry-run
after_fetch_always(records, dry_run) ==
    IF records # <<>> THEN "transform" ELSE "progress"
\* line 974: the rows of a live run are transformed and written at once
after_fetch(records, dry_run) ==
    IF records # <<>> /\ ~dry_run THEN "transform" ELSE "progress"

QueryInflux ==
    /\ pc = "fetch"
    /\ window_records' = query_influxdb(windows[i])
    /\ all_records' = all_records \o window_records'
    /\ queries' = Append(queries, [w |-> i, ok |-> TRUE])
    /\ pc' = after_fetch(window_records', args.dry_run)
    /\ UNCHANGED <<envVars, minute, stdscr, i, transformed, stats,
                   total_containers_inserted, total_users_inserted, total_stats,
                   containers_inserted, connVars, storeVars, sink_calls,
                   transform_calls, refreshes, interrupted, faults>>

QueryRaises ==
    /\ pc = "fetch"
    /\ Len(faults) < MaxFaults
    /\ faults' = Append(faults, "query")
    /\ queries' = Append(queries, [w |-> i, ok |-> FALSE])
    /\ ExceptionInLoop
    /\ UNCHANGED <<envVars, minute, loopVars, pg_conn, autocommit, storeVars,
                   sink_calls, transform_calls, refreshes, interrupted>>

(***************************************************************************)
(* lines 973-979: the window's rows are normalized                         *)
(***************************************************************************)
add_stats(totals, st) ==
    [skipped_no_pod_name |-> totals.skipped_no_pod_name + st.skipped_no_pod_name,
     skipped_not_jupyter |-> totals.skipped_not_jupyter + st.skipped_not_jupyter,
     duplicates_in_batch |-> totals.duplicates_in_batch + st.duplicates_in_batch]

TransformWindow ==
    /\ pc = "transform"
    /\ LET r == transform_records(window_records)
       IN /\ ~r.raised
          /\ transformed' = r.transformed
          /\ stats' = r.stats
          /\ total_stats' = add_stats(total_stats, r.stats)
          /\ pc' = IF r.transformed # <<>> THEN "insert" ELSE "progress"
    /\ transform_calls' = Append(transform_calls, window_records)
    /\ UNCHANGED <<envVars, minute, stdscr, i, window_records, all_records,
                   total_containers_inserted, total_users_inserted,
                   containers_inserted, connVars, storeVars, queries, sink_calls,
                   refreshes, interrupted, faults>>

TransformRaises ==
    /\ pc = "transform"
    /\ transform_records(window_records).raised
    /\ transform_calls' = Append(transform_calls, window_records)
    /\ ExceptionInLoop
    /\ UNCHANGED <<envVars, minute, loopVars, pg_conn, autocommit, storeVars,
                   queries, sink_calls, refreshes, interrupted, faults>>

(***************************************************************************)
(* insert_records, lines 577-624.  The function counts the rows, executes  *)
(* the batch, commits and counts again; what it returns is the difference. *)
(* When a statement raises after n rows were executed, it rolls back and   *)
(* re-raises.                                                              *)
(***************************************************************************)
\* a variant that reports every submitted row as inserted
rows_submitted(rows_before, rows_after, records) == Len(records)
rows_inserted(rows_before, rows_after, records) == rows_after - rows_before

\* a variant that counts the rows of the batch
insert_records_counting_batch(view, records) ==
    [view |-> execute_insert(view, records, Len(records)),
     returned |-> Len(records),
     rows_skipped |-> 0]

insert_records(view, records) ==
    IF records = <<>>
    THEN [view |-> view, returned |-> 0, rows_skipped |-> 0]
    ELSE LET after == execute_insert(view, records, Len(records))
             inserted == rows_inserted(Cardinality(view), Cardinality(after),
                                       records)
         IN [view |-> after,
             returned |-> inserted,
             rows_skipped |-> Len(records) - inserted]

\* insert_records while another connection commits the rows `others`
\* between the first SELECT COUNT(*) and the second one: every statement of
\* a READ COMMITTED transaction sees what is committed when it starts
insert_records_beside(view, records, others) ==
    IF records = <<>>
    THEN [view |-> view, returned |-> 0, rows_skipped |-> 0]
    ELSE LET rows_before == Cardinality(view)
             after == execute_insert(view \cup others, records, Len(records))
             rows_after == Cardinality(after)
             inserted == rows_inserted(rows_before, rows_after, records)
         IN [view |-> after,
             returned |-> inserted,
             rows_skipped |-> Len(records) - inserted]

InsertRecords ==
    /\ pc = "insert"
    /\ LET r == insert_records(tx_obs, transformed)
       IN /\ tx_obs' = r.view
          /\ obs' = r.view
          /\ users' = tx_users
          /\ containers_inserted' = r.returned
          /\ total_containers_inserted' = total_containers_inserted + r.returned
    /\ sink_calls' = sink_calls + 1
    /\ pc' = "upsert"
    /\ UNCHANGED <<envVars, minute, stdscr, i, window_records, transformed, stats,
                   all_records, total_users_inserted, total_stats, connVars,
                   tx_users, queries, transform_calls, refreshes, interrupted,
                   faults>>

InsertRaises ==
    /\ pc = "insert"
    /\ Len(faults) < MaxFaults
    /\ faults' = Append(faults, "insert")
    /\ \E n \in 0..(Len(transformed) - 1) :
          tx_obs' = rollback(obs, execute_insert(tx_obs, transformed, n))
    /\ tx_users' = rollback(users, tx_users)
    /\ sink_calls' = sink_calls + 1
    /\ ExceptionInLoop
    /\ UNCHANGED <<envVars, minute, loopVars, pg_conn, autocommit, obs, users,
                   queries, transform_calls, refreshes, interrupted>>

(***************************************************************************)
(* upsert_users, lines 526-574, on extract_users_from_batch(transformed)   *)
(***************************************************************************)
upsert_users(view, batch) ==
    IF batch = {}
    THEN [view |-> view, returned |-> 0]
    ELSE LET after == execute_upsert(view, batch)
         IN [view |-> after, returned |-> Cardinality(after) - Cardinality(view)]

UpsertUsers ==
    /\ pc = "upsert"
    /\ LET r == upsert_users(tx_users, extract_users_from_batch(transformed))
       IN /\ tx_users' = r.view
          /\ users' = r.view
          /\ obs' = tx_obs
          /\ total_users_inserted' = total_users_inserted + r.returned
    /\ sink_calls' = sink_calls + 1
    /\ pc' = "progress"
    /\ UNCHANGED <<envVars, minute, stdscr, i, window_records, transformed, stats,
                   all_records, total_containers_inserted, total_stats,
                   containers_inserted, connVars, tx_obs, queries,
                   transform_calls, refreshes, interrupted, faults>>

UpsertRaises ==
    /\ pc = "upsert"
    /\ Len(faults) < MaxFaults
    /\ faults' = Append(faults, "upsert")
    /\ \E done \in SUBSET extract_users_from_batch(transformed) :
          /\ done # extract_users_from_batch(transformed)
          /\ tx_users' = rollback(users, execute_upsert(tx_users, done))
    /\ tx_obs' = rollback(obs, tx_obs)
    /\ sink_calls' = sink_calls + 1
    /\ ExceptionInLoop
    /\ UNCHANGED <<envVars, minute, loopVars, pg_conn, autocommit, obs, users,
                   queries, transform_calls, refreshes, interrupted>>

(***************************************************************************)
(* lines 993-1009: the progress display, then the pacing sleep and the     *)
(* next window, or the end of the loop after the last window               *)
(***************************************************************************)
Pace ==
    /\ pc = "progress"
    /\ i < Len(windows)
    /\ minute' \in IF args.skip_time_check THEN {minute}
                                           ELSE {minute, NextMinute(minute)}
    /\ i' = i + 1
    /\ pc' = "blackout"
    /\ UNCHANGED <<envVars, stdscr, loopVars, connVars, storeVars, logVars,
                   interrupted, faults>>

LastWindowDone ==
    /\ pc = "progress"
    /\ i = Len(windows)
    /\ pc' = "loop_done"
    /\ UNCHANGED <<envVars, minute, stdscr, i, loopVars, connVars, storeVars,
                   logVars, interrupted, faults>>

(***************************************************************************)
(* KeyboardInterrupt inside run_import_loop.  Under curses.wrapper the     *)
(* except KeyboardInterrupt clause of line 1019 closes both connections    *)
(* and exits 1.  In run_import_loop(None), called from an except clause,   *)
(* only the finally clause runs: the source client is closed, pg_conn is   *)
(* not, and the interpreter ends on the uncaught interrupt (status 130).   *)
(* draw_progress runs under a bare except: an interrupt that arrives while *)
(* it draws is swallowed and the loop goes on.                             *)
(***************************************************************************)
InLoop == pc \in {"blackout", "fetch", "transform", "insert", "upsert", "progress"}

Interrupt ==
    /\ InLoop
    /\ interrupted' = TRUE
    /\ pc' = "exited"
    /\ influx_open' = FALSE
    /\ IF stdscr
       THEN /\ pg_conn' = IF args.dry_run THEN pg_conn ELSE "closed"
            /\ exit_code' = 1
       ELSE /\ pg_conn' = pg_conn
            /\ exit_code' = 130
    /\ UNCHANGED <<envVars, minute, stdscr, i, loopVars, autocommit, storeVars,
                   logVars, faults>>

InterruptSwallowed ==
    /\ stdscr
    /\ ~interrupted
    /\ \/ pc = "progress"
       \/ pc = "blackout" /\ ~args.skip_time_check /\ is_in_blocked_time_window
    /\ interrupted' = TRUE
    /\ UNCHANGED <<envVars, minute, pc, stdscr, i, loopVars, connVars, storeVars,
                   logVars, faults>>

(***************************************************************************)
(* main after the loop, lines 1038-1092                                    *)
(***************************************************************************)
\* a variant that refreshes whatever was inserted
needs_refresh_always(total) == TRUE
\* line 1092
needs_refresh(total) == total > 0

AfterLoop ==
    /\ pc = "loop_done"
    /\ influx_open' = FALSE
    /\ IF all_records = <<>>
       THEN \* "No records found": lines 1042-1051
            /\ pg_conn' = IF args.dry_run THEN pg_conn ELSE "closed"
            /\ pc' = "exited"
            /\ exit_code' = 0
            /\ UNCHANGED <<transformed, stats, transform_calls>>
       ELSE IF args.dry_run
       THEN \* lines 1055-1067
            /\ LET r == transform_records(all_records)
               IN /\ transformed' = r.transformed
                  /\ stats' = r.stats
                  /\ exit_code' = IF r.raised THEN 1 ELSE 0
            /\ transform_calls' = Append(transform_calls, all_records)
            /\ pc' = "exited"
            /\ UNCHANGED pg_conn
       ELSE IF needs_refresh(total_containers_inserted)
       THEN /\ pc' = "refresh_mv"
            /\ UNCHANGED <<pg_conn, exit_code, transformed, stats, transform_calls>>
       ELSE /\ pg_conn' = "closed"
            /\ pc' = "exited"
            /\ exit_code' = 0
            /\ UNCHANGED <<transformed, stats, transform_calls>>
    /\ UNCHANGED <<envVars, minute, stdscr, i, window_records, all_records,
                   total_containers_inserted, total_users_inserted, total_stats,
                   containers_inserted, autocommit, storeVars, queries,
                   sink_calls, refreshes, interrupted, faults>>

(***************************************************************************)
(* refresh_materialized_views, lines 627-658, called at line 1095          *)
(***************************************************************************)
RefreshViews ==
    /\ pc = "refresh_mv"
    /\ refreshes' = Append(refreshes, "user_sessions")
    /\ obs' = tx_obs
    /\ users' = tx_users
    /\ pc' = "refresh_ca"
    /\ UNCHANGED <<envVars, minute, stdscr, i, loopVars, connVars, tx_obs,
                   tx_users, queries, sink_calls, transform_calls, interrupted,
                   faults>>

\* the refresh raises: rollback, re-raise, the warning of lines 1100-1104,
\* and main goes on to close the connection
RefreshViewsRaises ==
    /\ pc = "refresh_mv"
    /\ Len(faults) < MaxFaults
    /\ faults' = Append(faults, "refresh_mv")
    /\ tx_obs' = rollback(obs, tx_obs)
    /\ tx_users' = rollback(users, tx_users)
    /\ pg_conn' = "closed"
    /\ pc' = "exited"
    /\ exit_code' = 0
    /\ UNCHANGED <<envVars, minute, stdscr, i, loopVars, influx_open, autocommit,
                   obs, users, logVars, interrupted>>

(***************************************************************************)
(* refresh_continuous_aggregates, lines 661-708: autocommit is switched on *)
(* for the two CALLs and restored in the finally clause; an exception is   *)
(* printed as a warning.  Then main closes the connection.                 *)
(***************************************************************************)
\* a variant whose finally clause leaves the mode the CALLs ran in
restore_nothing(old_autocommit, current) == current
\* lines 706-708: conn.autocommit = old_autocommit
restore_autocommit(old_autocommit, current) == old_autocommit

RefreshAggregates ==
    /\ pc = "refresh_ca"
    /\ LET old_autocommit == autocommit
       IN autocommit' = restore_autocommit(old_autocommit, TRUE)
    /\ obs' = tx_obs
    /\ users' = tx_users
    /\ refreshes' = refreshes \o <<"hourly_node_stats", "hourly_image_stats">>
    /\ pg_conn' = "closed"
    /\ pc' = "exited"
    /\ exit_code' = 0
    /\ UNCHANGED <<envVars, minute, stdscr, i, loopVars, influx_open, tx_obs,
                   tx_users, queries, sink_calls, transform_calls, interrupted,
                   faults>>

\* the commit of line 675 or one of the two CALLs raises: the warning of
\* line 703, nothing re-raised
RefreshAggregatesRaises ==
    /\ pc = "refresh_ca"
    /\ Len(faults) < MaxFaults
    /\ faults' = Append(faults, "refresh_ca")
    /\ LET old_autocommit == autocommit
       IN \E current \in {old_autocommit, TRUE} :
             autocommit' = restore_autocommit(old_autocommit, current)
    /\ obs' = tx_obs
    /\ users' = tx_users
    /\ \/ refreshes' = refreshes
       \/ refreshes' = Append(refreshes, "hourly_node_stats")
    /\ pg_conn' = "closed"
    /\ pc' = "exited"
    /\ exit_code' = 0
    /\ UNCHANGED <<envVars, minute, stdscr, i, loopVars, influx_open, tx_obs,
                   tx_users, queries, sink_calls, transform_calls, interrupted>>

(***************************************************************************)
(* The program is started again on the same store and source.              *)
(***************************************************************************)
NextRun ==
    /\ pc = "exited"
    /\ run < MaxRuns
    /\ run' = run + 1
    /\ prev' = [args |-> args, exit_code |-> exit_code,
                completed |-> exit_code = 0]
    /\ args' \in ArgsSet
    /\ args'.skip_time_check
    /\ ~args'.dry_run
    /\ minute' = 3
    /\ pc' = "start"
    /\ stdscr' = FALSE
    /\ i' = 0
    /\ windows' = <<>>
    /\ window_records' = <<>>
    /\ transformed' = <<>>
    /\ stats' = NoStats
    /\ all_records' = <<>>
    /\ total_containers_inserted' = 0
    /\ total_users_inserted' = 0
    /\ total_stats' = NoTotals
    /\ containers_inserted' = 0
    /\ influx_open' = FALSE
    /\ pg_conn' = "none"
    /\ autocommit' = FALSE
    /\ exit_code' = 0
    /\ queries' = <<>>
    /\ sink_calls' = 0
    /\ transform_calls' = <<>>
    /\ refreshes' = <<>>
    /\ interrupted' = FALSE
    /\ tx_obs' = obs
    /\ tx_users' = users
    /\ UNCHANGED <<source, obs, users, faults>>

Next ==
    \/ MainStart
    \/ CursesStart
    \/ CursesFails
    \/ BlackoutPass
    \/ BlackoutWait
    \/ QueryInflux
    \/ QueryRaises
    \/ TransformWindow
    \/ InsertRecords
    \/ InsertRaises
    \/ UpsertUsers
    \/ UpsertRaises
    \/ Pace
    \/ LastWindowDone
    \/ Interrupt
    \/ InterruptSwallowed
    \/ AfterLoop
    \/ RefreshViews
    \/ RefreshViewsRaises
    \/ RefreshAggregates
    \/ RefreshAggregatesRaises

Spec == Init /\ [][Next]_vars

(***************************************************************************)
(* Repeated runs: the program is run, and run again, on one store.  In     *)
(* these runs the blackout check is skipped, curses starts, no call raises   *)
(* and no interrupt arrives, so every run completes.                       *)
(***************************************************************************)
InitRerun == InitRun /\ args.skip_time_check /\ faults = <<>>

NextRerun ==
    \/ MainStart
    \/ CursesStart
    \/ BlackoutPass
    \/ QueryInflux
    \/ TransformWindow
    \/ InsertRecords
    \/ UpsertUsers
    \/ Pace
    \/ LastWindowDone
    \/ AfterLoop
    \/ RefreshViews
    \/ RefreshAggregates
    \/ NextRun

SpecRerun == InitRerun /\ [][NextRerun]_vars

(***************************************************************************)
(* generate_time_windows on its own: main is started with any range and    *)
(* window size and computes the windows.                                   *)
(***************************************************************************)
WindowArgs == [dry_run : {TRUE}, skip_time_check : {TRUE},
               start : 0..(2 * MaxTime), stop : 0..(2 * MaxTime),
               time_window : 1..(MaxWindow + 1)]

InitWindows ==
    /\ source = <<>>
    /\ args \in WindowArgs
    /\ minute = 3
    /\ EmptyStore
    /\ faults = <<>>
    /\ run = 1
    /\ prev = NoRun
    /\ FreshProcess

NextWindows == MainStart

SpecWindows == InitWindows /\ [][NextWindows]_vars

(***************************************************************************)
(* transform_records on its own: a live run is at line 975 with any batch  *)
(* of rows as the window's records, also rows whose time or pod_name is    *)
(* missing and times spelled with either offset.                           *)
(***************************************************************************)
BatchTimes == {TimeZ(t) : t \in 0..(MaxTime - 1)} \cup {TimeOffset(0), NoTime}
BatchPods == {P_ax, P_ay, P_hub, S_none}
BatchSamples == {Sample(ts, p) : ts \in BatchTimes, p \in BatchPods}
Batches == UNION {[1..n -> BatchSamples] : n \in 0..MaxBatch}

InitTransform ==
    /\ window_records \in Batches
    /\ source = window_records
    /\ all_records = window_records
    /\ args = [dry_run |-> FALSE, skip_time_check |-> TRUE, start |-> 0,
               stop |-> MaxTime, time_window |-> MaxTime]
    /\ windows = <<<<0, MaxTime>>>>
    /\ minute = 3
    /\ pc = "transform"
    /\ stdscr = FALSE
    /\ i = 1
    /\ transformed = <<>>
    /\ stats = NoStats
    /\ total_containers_inserted = 0
    /\ total_users_inserted = 0
    /\ total_stats = NoTotals
    /\ containers_inserted = 0
    /\ influx_open = TRUE
    /\ pg_conn = "open"
    /\ autocommit = FALSE
    /\ exit_code = 0
    /\ EmptyStore
    /\ queries = <<[w |-> 1, ok |-> TRUE]>>
    /\ sink_calls = 0
    /\ transform_calls = <<>>
    /\ refreshes = <<>>
    /\ interrupted = FALSE
    /\ faults = <<>>
    /\ run = 1
    /\ prev = NoRun

NextTransform == TransformWindow \/ TransformRaises

SpecTransform == InitTransform /\ [][NextTransform]_vars

(***************************************************************************)
(* Both normalizers on their own.  The v2 main (lines 389-494) fetches all *)
(* windows first; with rows in all_records it calls transform_records once *)
(* and, unless --dry-run is given, opens the destination connection and    *)
(* calls insert_records once.                                              *)
(***************************************************************************)
BatchSamplesV2 ==
    {SampleV2(t, p, st[1], st[2], v) :
        t \in 0..(MaxTime - 1), p \in {P_ax, P_ay, P_jhub, S_unknown},
        st \in {<<S_running, S_unknown>>, <<S_waiting, S_Running>>,
                <<S_waiting, S_unknown>>},
        v \in {S_unknown, S_tag}}
BatchesV2 == UNION {[1..n -> BatchSamplesV2] : n \in 1..MaxBatchV2}

InitTransformV2 ==
    /\ all_records \in BatchesV2
    /\ source = all_records
    /\ window_records = all_records
    /\ args \in [dry_run : BOOLEAN, skip_time_check : {TRUE}, start : {0},
                 stop : {MaxTime}, time_window : {MaxTime}]
    /\ windows = <<<<0, MaxTime>>>>
    /\ minute = 3
    /\ pc = "v2_transform"
    /\ stdscr = FALSE
    /\ i = 1
    /\ transformed = <<>>
    /\ stats = NoStats
    /\ total_containers_inserted = 0
    /\ total_users_inserted = 0
    /\ total_stats = NoTotals
    /\ containers_inserted = 0
    /\ influx_open = FALSE
    /\ pg_conn = "none"
    /\ autocommit = FALSE
    /\ exit_code = 0
    /\ EmptyStore
    /\ queries = <<[w |-> 1, ok |-> TRUE]>>
    /\ sink_calls = 0
    /\ transform_calls = <<>>
    /\ refreshes = <<>>
    /\ interrupted = FALSE
    /\ faults = <<>>
    /\ run = 1
    /\ prev = NoRun

\* v2 main, lines 480-487
TransformV2 ==
    /\ pc = "v2_transform"
    /\ transformed' = transform_records_v2(all_records)
    /\ transform_calls' = Append(transform_calls, all_records)
    /\ pc' = IF args.dry_run THEN "v2_done" ELSE "v2_insert"
    /\ pg_conn' = IF args.dry_run THEN pg_conn ELSE "open"
    /\ UNCHANGED <<envVars, minute, stdscr, i, window_records, stats, all_records,
                   total_containers_inserted, total_users_inserted, total_stats,
                   containers_inserted, influx_open, autocommit, exit_code,
                   storeVars, queries, sink_calls, refreshes, interrupted,
                   faults>>

\* v2 insert_records, lines 343-370: nothing is done for an empty list;
\* otherwise the batch is executed and committed, and nothing is returned
insert_records_v2(view, records) ==
    IF records = <<>> THEN view
    ELSE execute_insert(view, records, Len(records))

\* v2 main, lines 489-494
InsertV2 ==
    /\ pc = "v2_insert"
    /\ tx_obs' = insert_records_v2(tx_obs, transformed)
    /\ obs' = tx_obs'
    /\ sink_calls' = sink_calls + 1
    /\ pg_conn' = "closed"
    /\ pc' = "v2_done"
    /\ UNCHANGED <<envVars, minute, stdscr, i, loopVars, influx_open, autocommit,
                   exit_code, users, tx_users, queries, transform_calls,
                   refreshes, interrupted, faults>>

(***************************************************************************)
(* The parsing of pod names and image references: a live run is at line    *)
(* 975 with one row whose pod name is "jupyter-" + u + "-" + h for any     *)
(* user part u and hyphen-free suffix h, or whose image is any reference;  *)
(* the row is normalized and written.                                      *)
(***************************************************************************)
RECURSIVE Strings(_, _)
Strings(chars, n) ==
    IF n = 0 THEN {<<>>}
    ELSE Strings(chars, n - 1)
           \cup {Append(x, c) : x \in Strings(chars, n - 1), c \in chars}

UserParts == Strings({"a", "B", "-"}, MaxName)
HashParts == Strings({"x", "7"}, 2) \ {<<>>}
PodNames == {S_jupyter \o u \o <<"-">> \o h : u \in UserParts, h \in HashParts}
ImageRefs == Strings({"r", "/", ":", "v"}, MaxRef) \ {<<>>}

ParsingSamples ==
    {[Sample(TimeZ(0), p) EXCEPT !.image = I_image] : p \in PodNames}
    \cup {[Sample(TimeZ(0), P_ax) EXCEPT !.image = img] : img \in ImageRefs}

InitParsing ==
    /\ \E r \in ParsingSamples : window_records = <<r>>
    /\ source = window_records
    /\ all_records = window_records
    /\ args = [dry_run |-> FALSE, skip_time_check |-> TRUE, start |-> 0,
               stop |-> MaxTime, time_window |-> MaxTime]
    /\ windows = <<<<0, MaxTime>>>>
    /\ minute = 3
    /\ pc = "transform"
    /\ stdscr = FALSE
    /\ i = 1
    /\ transformed = <<>>
    /\ stats = NoStats
    /\ total_containers_inserted = 0
    /\ total_users_inserted = 0
    /\ total_stats = NoTotals
    /\ containers_inserted = 0
    /\ influx_open = TRUE
    /\ pg_conn = "open"
    /\ autocommit = FALSE
    /\ exit_code = 0
    /\ EmptyStore
    /\ queries = <<[w |-> 1, ok |-> TRUE]>>
    /\ sink_calls = 0
    /\ transform_calls = <<>>
    /\ refreshes = <<>>
    /\ interrupted = FALSE
    /\ faults = <<>>
    /\ run = 1
    /\ prev = NoRun

NextParsing == TransformWindow \/ InsertRecords \/ UpsertUsers

SpecParsing == InitParsing /\ [][NextParsing]_vars

(***************************************************************************)
(* insert_records on a store that an earlier run has filled: a live run is *)
(* at line 975 with a batch of rows of two pods, some of them the same     *)
(* instant spelled with another offset, and the store holds what an        *)
(* earlier import of no row or of one row has left.                        *)
(***************************************************************************)
InsertSamples == {Sample(ts, p) : ts \in {TimeZ(0), TimeOffset(0), TimeZ(1)},
                                  p \in {P_ax, P_bx}}
InsertBatches == UNION {[1..n -> InsertSamples] : n \in 0..MaxBatch}
EarlierBatches == {<<>>} \cup {<<r>> : r \in InsertSamples}

InitInsert ==
    /\ window_records \in InsertBatches
    /\ source = window_records
    /\ all_records = window_records
    /\ \E earlier \in EarlierBatches :
         LET rows == transform_records(earlier).transformed
         IN /\ obs = insert_records({}, rows).view
            /\ users = upsert_users({}, extract_users_from_batch(rows)).view
    /\ tx_obs = obs
    /\ tx_users = users
    /\ args = [dry_run |-> FALSE, skip_time_check |-> TRUE, start |-> 0,
               stop |-> MaxTime, time_window |-> MaxTime]
    /\ windows = <<<<0, MaxTime>>>>
    /\ minute = 3
    /\ pc = "transform"
    /\ stdscr = FALSE
    /\ i = 1
    /\ transformed = <<>>
    /\ stats = NoStats
    /\ total_containers_inserted = 0
    /\ total_users_inserted = 0
    /\ total_stats = NoTotals
    /\ containers_inserted = 0
    /\ influx_open = TRUE
    /\ pg_conn = "open"
    /\ autocommit = FALSE
    /\ exit_code = 0
    /\ queries = <<[w |-> 1, ok |-> TRUE]>>
    /\ sink_calls = 0
    /\ transform_calls = <<>>
    /\ refreshes = <<>>
    /\ interrupted = FALSE
    /\ faults = <<>>
    /\ run = 1
    /\ prev = NoRun

NextInsert == TransformWindow \/ InsertRecords \/ UpsertUsers

SpecInsert == InitInsert /\ [][NextInsert]_vars

(***************************************************************************)
(* The blackout check: runs without errors and interrupts that are started *)
(* at any minute, with the check on or off, over a source of at most one   *)
(* row.                                                                    *)
(***************************************************************************)
InitBlackout ==
    /\ source \in {src \in Sources : Len(src) <= 1}
    /\ args \in ArgsSet
    /\ minute \in ClockValues
    /\ EmptyStore
    /\ faults = <<>>
    /\ run = 1
    /\ prev = NoRun
    /\ FreshProcess

NextBlackout ==
    \/ MainStart
    \/ CursesStart
    \/ CursesFails
    \/ BlackoutPass
    \/ BlackoutWait
    \/ QueryInflux
    \/ TransformWindow
    \/ InsertRecords
    \/ UpsertUsers
    \/ Pace
    \/ LastWindowDone
    \/ AfterLoop
    \/ RefreshViews
    \/ RefreshAggregates

SpecBlackout == InitBlackout /\ [][NextBlackout]_vars

(***************************************************************************)
(* upsert_users on a users table that another producer (the collector)     *)
(* writes too: live runs without errors, one after the other, on a store   *)
(* in which the collector has or has not created the row of user "a", with *)
(* a user_id and a full_name of its own.                                    *)
(***************************************************************************)
CollectorUser == [email |-> <<"a">> \o S_domain, user_id |-> <<"u", "7">>,
                  full_name |-> <<"A", "n", "n">>,
                  first_seen |-> 1, last_seen |-> 1]
CollectorStores == {{}, {CollectorUser}}

InitUpsert ==
    /\ source \in Sources
    /\ args \in ArgsSet
    /\ args.skip_time_check
    /\ ~args.dry_run
    /\ minute = 3
    /\ obs = {}
    /\ tx_obs = {}
    /\ users \in CollectorStores
    /\ tx_users = users
    /\ faults = <<>>
    /\ run = 1
    /\ prev = NoRun
    /\ FreshProcess

SpecUpsert == InitUpsert /\ [][NextRerun]_vars

(***************************************************************************)
(* The version of an observation: both normalizers on batches of running   *)
(* samples whose version tag is missing, "unknown" or a tag, and whose     *)
(* image reference has a tag or none.                                      *)
(***************************************************************************)
I_plain == <<"r", "/", "i">>
VersionTags == {S_none, S_unknown, S_tag}
VersionSamples ==
    {[Sample(TimeZ(t), p) EXCEPT !.image = img, !.version = v] :
        t \in 0..1, p \in {P_ax, P_ay}, img \in {I_image, I_plain},
        v \in VersionTags}
\* the v2 query_influxdb puts "unknown" where the tag is missing
VersionSamplesV2 ==
    {[SampleV2(t, p, S_running, S_unknown, v) EXCEPT !.image = img] :
        t \in 0..1, p \in {P_ax, P_ay}, img \in {I_image, I_plain},
        v \in VersionTags \ {S_none}}

InitVersions ==
    /\ \/ /\ window_records \in
                UNION {[1..n -> VersionSamples] : n \in 1..MaxBatchV2}
          /\ pc = "transform"
          /\ pg_conn = "open"
          /\ influx_open = TRUE
          /\ args = [dry_run |-> FALSE, skip_time_check |-> TRUE, start |-> 0,
                     stop |-> MaxTime, time_window |-> MaxTime]
       \/ /\ window_records \in
                UNION {[1..n -> VersionSamplesV2] : n \in 1..MaxBatchV2}
          /\ pc = "v2_transform"
          /\ pg_conn = "none"
          /\ influx_open = FALSE
          /\ args \in [dry_run : BOOLEAN, skip_time_check : {TRUE}, start : {0},
                       stop : {MaxTime}, time_window : {MaxTime}]
    /\ source = window_records
    /\ all_records = window_records
    /\ windows = <<<<0, MaxTime>>>>
    /\ minute = 3
    /\ stdscr = FALSE
    /\ i = 1
    /\ transformed = <<>>
    /\ stats = NoStats
    /\ total_containers_inserted = 0
    /\ total_users_inserted = 0
    /\ total_stats = NoTotals
    /\ containers_inserted = 0
    /\ autocommit = FALSE
    /\ exit_code = 0
    /\ EmptyStore
    /\ queries = <<[w |-> 1, ok |-> TRUE]>>
    /\ sink_calls = 0
    /\ transform_calls = <<>>
    /\ refreshes = <<>>
    /\ interrupted = FALSE
    /\ faults = <<>>
    /\ run = 1
    /\ prev = NoRun

NextVersions == TransformWindow \/ TransformV2 \/ InsertV2

SpecVersions == InitVersions /\ [][NextVersions]_vars

(***************************************************************************)
(* The import beside the live collector: live runs without errors into an  *)
(* empty store, while the collector may commit observations of its own     *)
(* (later than every sample of the source) during an insert_records call.  *)
(***************************************************************************)
CollectorRow(t) ==
    [timestamp |-> t, user_email |-> <<"a">> \o S_domain, user_name |-> <<"A">>,
     node_name |-> N_node, container_image |-> I_image,
     container_base |-> <<"i">>, container_version |-> <<"v">>,
     age_seconds |-> 0, pod_name |-> P_ax]
CollectorRows == {CollectorRow(MaxTime), CollectorRow(MaxTime + 1)}

InsertRecordsBeside ==
    /\ pc = "insert"
    /\ \E others \in SUBSET (CollectorRows \ obs) :
          /\ others # {}
          /\ LET r == insert_records_beside(tx_obs, transformed, others)
             IN /\ tx_obs' = r.view
                /\ obs' = r.view
                /\ users' = tx_users
                /\ containers_inserted' = r.returned
                /\ total_containers_inserted'
                     = total_containers_inserted + r.returned
    /\ sink_calls' = sink_calls + 1
    /\ pc' = "upsert"
    /\ UNCHANGED <<envVars, minute, stdscr, i, window_records, transformed, stats,
                   all_records, total_users_inserted, total_stats, connVars,
                   tx_users, queries, transform_calls, refreshes, interrupted,
                   faults>>

InitConcurrent == InitRerun /\ ~args.dry_run

NextConcurrent ==
    \/ MainStart
    \/ CursesStart
    \/ BlackoutPass
    \/ QueryInflux
    \/ TransformWindow
    \/ InsertRecords
    \/ InsertRecordsBeside
    \/ UpsertUsers
    \/ Pace
    \/ LastWindowDone
    \/ AfterLoop
    \/ RefreshViews
    \/ RefreshAggregates

SpecConcurrent == InitConcurrent /\ [][NextConcurrent]_vars

(***************************************************************************)
(* The same import with another window size: a live run without errors     *)
(* into an empty store, and then the program started again on the same     *)
(* source and range with another --time-window and another, empty store;   *)
(* prev keeps what the run before has stored.                              *)
(***************************************************************************)
NextRunElsewhere ==
    /\ pc = "exited"
    /\ run < MaxRuns
    /\ run' = run + 1
    /\ prev' = [args |-> args, exit_code |-> exit_code,
                completed |-> exit_code = 0, obs |-> obs]
    /\ \E w \in (1..MaxWindow) \ {args.time_window} :
          args' = [args EXCEPT !.time_window = w]
    /\ obs' = {}
    /\ users' = {}
    /\ tx_obs' = {}
    /\ tx_users' = {}
    /\ pc' = "start"
    /\ stdscr' = FALSE
    /\ i' = 0
    /\ windows' = <<>>
    /\ window_records' = <<>>
    /\ transformed' = <<>>
    /\ stats' = NoStats
    /\ all_records' = <<>>
    /\ total_containers_inserted' = 0
    /\ total_users_inserted' = 0
    /\ total_stats' = NoTotals
    /\ containers_inserted' = 0
    /\ influx_open' = FALSE
    /\ pg_conn' = "none"
    /\ autocommit' = FALSE
    /\ exit_code' = 0
    /\ queries' = <<>>
    /\ sink_calls' = 0
    /\ transform_calls' = <<>>
    /\ refreshes' = <<>>
    /\ interrupted' = FALSE
    /\ UNCHANGED <<source, minute, faults>>

InitSizes == InitRerun /\ ~args.dry_run

NextSizes ==
    \/ MainStart
    \/ CursesStart
    \/ BlackoutPass
    \/ QueryInflux
    \/ TransformWindow
    \/ InsertRecords
    \/ UpsertUsers
    \/ Pace
    \/ LastWindowDone
    \/ AfterLoop
    \/ RefreshViews
    \/ RefreshAggregates
    \/ NextRunElsewhere

SpecSizes == InitSizes /\ [][NextSizes]_vars

(***************************************************************************)
(* The preview and the import: a dry run, and then the program started     *)
(* again with the same arguments without --dry-run, on the store the dry   *)
(* run has left empty.  prev keeps what the dry run reported.  The calls   *)
(* that raise here are source queries.                                     *)
(***************************************************************************)
NextRunLive ==
    /\ pc = "exited"
    /\ run < MaxRuns
    /\ args.dry_run
    /\ run' = run + 1
    /\ prev' = [args |-> args, exit_code |-> exit_code,
                completed |-> exit_code = 0, stats |-> stats]
    /\ args' = [args EXCEPT !.dry_run = FALSE]
    /\ tx_obs' = obs
    /\ tx_users' = users
    /\ pc' = "start"
    /\ stdscr' = FALSE
    /\ i' = 0
    /\ windows' = <<>>
    /\ window_records' = <<>>
    /\ transformed' = <<>>
    /\ stats' = NoStats
    /\ all_records' = <<>>
    /\ total_containers_inserted' = 0
    /\ total_users_inserted' = 0
    /\ total_stats' = NoTotals
    /\ containers_inserted' = 0
    /\ influx_open' = FALSE
    /\ pg_conn' = "none"
    /\ autocommit' = FALSE
    /\ exit_code' = 0
    /\ queries' = <<>>
    /\ sink_calls' = 0
    /\ transform_calls' = <<>>
    /\ refreshes' = <<>>
    /\ interrupted' = FALSE
    /\ UNCHANGED <<source, minute, obs, users, faults>>

InitPreview == InitRun /\ args.dry_run /\ args.skip_time_check /\ faults = <<>>

NextPreview ==
    \/ MainStart
    \/ CursesStart
    \/ CursesFails
    \/ BlackoutPass
    \/ QueryInflux
    \/ QueryRaises
    \/ TransformWindow
    \/ InsertRecords
    \/ UpsertUsers
    \/ Pace
    \/ LastWindowDone
    \/ AfterLoop
    \/ RefreshViews
    \/ RefreshAggregates
    \/ NextRunLive

SpecPreview == InitPreview /\ [][NextPreview]_vars

(***************************************************************************)
(* The windows of any --time-window argument.  Here args.time_window is    *)
(* the argument as it is typed, times are seconds, and the loop of         *)
(* generate_time_windows is followed one iteration at a time: windows is   *)
(* the list built so far and current is the end of its last window.  The   *)
(* loop is followed for at most WindowCap iterations.                       *)
(***************************************************************************)
Digits == <<"0", "1", "2", "3", "4", "5", "6", "7", "8", "9">>
IsDigit(c) == c \in RangeOf(Digits)
DigitValue(c) == (CHOOSE k \in DOMAIN Digits : Digits[k] = c) - 1

RECURSIVE DecimalValue(_)
DecimalValue(s) ==
    IF s = <<>> THEN 0
    ELSE 10 * DecimalValue(SubSeq(s, 1, Len(s) - 1)) + DigitValue(s[Len(s)])

\* int(s) raises ValueError: s is not an optional sign and one digit or more
int_raises(s) ==
    LET digits == IF s # <<>> /\ s[1] = "-" THEN Tail(s) ELSE s
    IN digits = <<>> \/ \E k \in DOMAIN digits : ~IsDigit(digits[k])

int(s) == IF s[1] = "-" THEN 0 - DecimalValue(Tail(s)) ELSE DecimalValue(s)

\* multipliers.get(unit, 3600)
multiplier(unit) ==
    CASE unit = "s" -> 1
      [] unit = "m" -> 60
      [] unit = "h" -> 3600
      [] unit = "d" -> 86400
      [] unit = "w" -> 604800
      [] unit = "y" -> 31536000
      [] OTHER -> 3600

parse_duration_raises(duration_str) ==
    int_raises(SubSeq(duration_str, 1, Len(duration_str) - 1))

parse_duration_to_seconds(duration_str) ==
    LET unit == duration_str[Len(duration_str)]
        value == int(SubSeq(duration_str, 1, Len(duration_str) - 1))
    IN value * multiplier(unit)

\* --time-window arguments: "0h", "-1h", "1h", "2h", "30m", "1x", "h"
DurationArgs == {<<"0", "h">>, <<"-", "1", "h">>, <<"1", "h">>, <<"2", "h">>,
                 <<"3", "0", "m">>, <<"1", "x">>, <<"h">>}
\* start_dt and stop_dt: half hours
RangeInstants == {1800 * k : k \in 0..(2 * MaxTime)}
WindowCap == 2 * MaxTime + 2

InitWindowing ==
    /\ source = <<>>
    /\ args \in [dry_run : {TRUE}, skip_time_check : {TRUE},
                 start : RangeInstants, stop : RangeInstants,
                 time_window : DurationArgs]
    /\ minute = 3
    /\ EmptyStore
    /\ faults = <<>>
    /\ run = 1
    /\ prev = NoRun
    /\ FreshProcess

\* main, lines 882-889: a ValueError ends the program with status 1
ParseTimes ==
    /\ pc = "start"
    /\ IF parse_duration_raises(args.time_window)
       THEN pc' = "exited" /\ exit_code' = 1
       ELSE pc' = "windowing" /\ exit_code' = exit_code
    /\ windows' = <<>>
    /\ UNCHANGED <<source, minute, args, stdscr, i, loopVars, influx_open,
                   pg_conn, autocommit, storeVars, logVars, interrupted, faults,
                   run, prev>>

\* the variable current of generate_time_windows
current == IF windows = <<>> THEN args.start ELSE windows[Len(windows)][2]

\* one iteration of the while loop, lines 240-243
GenerateStep ==
    /\ pc = "windowing"
    /\ current < args.stop
    /\ Len(windows) < WindowCap
    /\ LET window_size_seconds == parse_duration_to_seconds(args.time_window)
           window_end == Min2(current + window_size_seconds, args.stop)
       IN windows' = Append(windows, <<current, window_end>>)
    /\ UNCHANGED <<source, minute, args, pc, stdscr, i, loopVars, connVars,
                   storeVars, logVars, interrupted, faults, run, prev>>

\* the loop ends and the list is returned to main, which goes on to open
\* the source client (lines 245, 892-923)
GenerateReturn ==
    /\ pc = "windowing"
    /\ ~(current < args.stop)
    /\ influx_open' = TRUE
    /\ pg_conn' = IF args.dry_run THEN "none" ELSE "open"
    /\ pc' = "wrapper"
    /\ UNCHANGED <<source, minute, args, windows, stdscr, i, loopVars,
                   autocommit, exit_code, storeVars, logVars, interrupted,
                   faults, run, prev>>

NextWindowing == ParseTimes \/ GenerateStep \/ GenerateReturn

SpecWindowing == InitWindowing /\ [][NextWindowing]_vars

(***************************************************************************)
(* Runs that go on: a run over one or two instants, started at any minute  *)
(* over a source of at most one row, with errors and interrupts, in which  *)
(* a step that can be taken                                                *)
(* is taken in the end: every call returns or raises, every sleep ends and *)
(* the clock moves on.                                                     *)
(***************************************************************************)
InitLive ==
    /\ source \in {src \in Sources : Len(src) <= 1 /\ P_ay \notin RangeOf(
                        [k \in DOMAIN src |-> src[k].pod_name])}
    /\ args \in {a \in ArgsSet : a.start = 0 /\ a.stop \in 1..2}
    /\ minute \in IF args.skip_time_check THEN {3} ELSE ClockValues
    /\ EmptyStore
    /\ faults = <<>>
    /\ run = 1
    /\ prev = NoRun
    /\ FreshProcess

SpecLive == InitLive /\ [][Next]_vars /\ WF_vars(Next)

(***************************************************************************)
(* One batch through both importers: the v1 transform_records is at line   *)
(* 975 with a batch of running samples, and then the v2 importer is run    *)
(* over the same samples as its query_influxdb returns them (the time as a *)
(* datetime, "unknown" for a missing tag, state "running").  prev keeps    *)
(* what v1 has emitted.                                                    *)
(***************************************************************************)
ContractSamples ==
    {[Sample(TimeZ(t), p) EXCEPT !.version = v] :
        t \in 0..1, p \in {P_ax, P_hub}, v \in {S_none, S_tag}}

\* the raw sample as the v2 query_influxdb returns it
AsV2(r) ==
    [SampleV2(fromisoformat(r.time), r.pod_name, S_running, S_unknown,
              OrElse(r.version, S_unknown))
       EXCEPT !.node_name = r.node_name, !.image = r.image]

InitContract ==
    /\ window_records \in
          UNION {[1..n -> ContractSamples] : n \in 1..MaxBatchV2}
    /\ source = window_records
    /\ all_records = window_records
    /\ args = [dry_run |-> FALSE, skip_time_check |-> TRUE, start |-> 0,
               stop |-> MaxTime, time_window |-> MaxTime]
    /\ windows = <<<<0, MaxTime>>>>
    /\ minute = 3
    /\ pc = "transform"
    /\ stdscr = FALSE
    /\ i = 1
    /\ transformed = <<>>
    /\ stats = NoStats
    /\ total_containers_inserted = 0
    /\ total_users_inserted = 0
    /\ total_stats = NoTotals
    /\ containers_inserted = 0
    /\ influx_open = TRUE
    /\ pg_conn = "open"
    /\ autocommit = FALSE
    /\ exit_code = 0
    /\ EmptyStore
    /\ queries = <<[w |-> 1, ok |-> TRUE]>>
    /\ sink_calls = 0
    /\ transform_calls = <<>>
    /\ refreshes = <<>>
    /\ interrupted = FALSE
    /\ faults = <<>>
    /\ run = 1
    /\ prev = NoRun

\* the v2 importer has fetched the same samples (v2 main, lines 440-478)
RunV2 ==
    /\ pc \in {"insert", "progress"}
    /\ run = 1
    /\ run' = 2
    /\ prev' = [args |-> args, exit_code |-> exit_code, completed |-> TRUE,
                transformed |-> transformed]
    /\ all_records' = [k \in DOMAIN window_records |-> AsV2(window_records[k])]
    /\ window_records' = all_records'
    /\ source' = all_records'
    /\ transformed' = <<>>
    /\ transform_calls' = <<>>
    /\ influx_open' = FALSE
    /\ pg_conn' = "none"
    /\ pc' = "v2_transform"
    /\ UNCHANGED <<minute, args, windows, stdscr, i, stats,
                   total_containers_inserted, total_users_inserted, total_stats,
                   containers_inserted, autocommit, exit_code, storeVars,
                   queries, sink_calls, refreshes, interrupted, faults>>

NextContract == TransformWindow \/ RunV2 \/ TransformV2 \/ InsertV2

SpecContract == InitContract /\ [][NextContract]_vars

InitNormalizers == InitTransform \/ InitTransformV2

NextNormalizers == TransformWindow \/ TransformRaises \/ TransformV2 \/ InsertV2

SpecNormalizers == InitNormalizers /\ [][NextNormalizers]_vars

(***************************************************************************)
(* Properties.                                                             *)
(***************************************************************************)

\* C4: for start < stop and a positive window size, generate_time_windows
\* returns windows that begin at start, end at stop, follow one another
\* without gap or overlap and are each longer than 0 and no longer than the
\* window size; for start >= stop it returns no window.
WindowsCoverRange ==
    pc # "start" =>
      IF args.start < args.stop
      THEN /\ Len(windows) >= 1
           /\ windows[1][1] = args.start
           /\ windows[Len(windows)][2] = args.stop
           /\ \A k \in 1..(Len(windows) - 1) : windows[k][2] = windows[k + 1][1]
           /\ \A k \in DOMAIN windows :
                 /\ windows[k][2] - windows[k][1] > 0
                 /\ windows[k][2] - windows[k][1] <= args.time_window
      ELSE windows = <<>>

\* a range cut into several windows, the last one shorter than the others
WindowsCoverRangeWitness ==
    /\ pc = "wrapper"
    /\ Len(windows) >= 3
    /\ windows[Len(windows)][2] - windows[Len(windows)][1] < args.time_window

\* the batch of window_records has been normalized
Normalized == pc \in {"insert", "progress"} /\ transform_calls # <<>>

\* C9: for every batch handed to transform_records, the four statistics
\* are non-negative and add up to the number of rows of the batch, and
\* stats.transformed is the number of observations emitted (all four are 0
\* for the empty batch).
AccountingIdentity ==
    Normalized =>
      /\ stats.transformed + stats.skipped_no_pod_name
           + stats.skipped_not_jupyter + stats.duplicates_in_batch
         = Len(window_records)
      /\ stats.transformed = Len(transformed)
      /\ stats.skipped_no_pod_name >= 0
      /\ stats.skipped_not_jupyter >= 0
      /\ stats.duplicates_in_batch >= 0
      /\ window_records = <<>> => stats = NoStats

\* a batch with emitted rows, rows without pod_name and rows of other pods
AccountingIdentityWitness ==
    /\ Normalized
    /\ stats.transformed > 0
    /\ stats.skipped_no_pod_name > 0
    /\ stats.skipped_not_jupyter > 0

\* the rows of a batch that reach the duplicate test of line 446
ReachesKeyTest(r) ==
    /\ r.time # NoTime
    /\ OrElse(r.pod_name, S_unknown) # S_unknown
    /\ startswith(r.pod_name, S_jupyter)
\* the rows dropped there: an earlier row has the same (pod_name, time string)
DroppedAsDuplicate(records) ==
    {k \in DOMAIN records :
        /\ ReachesKeyTest(records[k])
        /\ \E j \in 1..(k - 1) : /\ records[j].pod_name = records[k].pod_name
                                 /\ records[j].time = records[k].time}

\* C10: stats.duplicates_in_batch is exactly the number of rows dropped
\* because their (pod_name, timestamp string) key was already seen in the
\* batch; rows dropped for another reason are not counted as duplicates.
DuplicatesCountedExactly ==
    Normalized =>
      stats.duplicates_in_batch = Cardinality(DroppedAsDuplicate(window_records))

\* the rows the store holds for the key of a normalized row
Stored(table, row) == \E x \in table : SameKey(x, row)

\* this run is a live run over the range of the run before it, which was
\* live and completed
SameRangeAgain ==
    /\ run >= 2
    /\ prev.completed
    /\ ~prev.args.dry_run
    /\ ~args.dry_run
    /\ prev.args.start = args.start
    /\ prev.args.stop = args.stop

\* C1: when a live run has completed and a second live run goes over the
\* same source rows and the same range, every insert_records call of the
\* second run returns 0, its total of inserted observations stays 0 and no
\* step of it changes the rows of container_observations.
RerunInsertsNothing ==
    [][SameRangeAgain' =>
         /\ containers_inserted' = 0
         /\ total_containers_inserted' = 0
         /\ (SameRangeAgain => obs' = obs)]_vars

\* the second run has just called insert_records with rows the first run
\* stored, cut into windows of another size
RerunInsertsNothingWitness ==
    /\ SameRangeAgain
    /\ prev.args.time_window # args.time_window
    /\ pc = "upsert"
    /\ transformed # <<>>
    /\ \A k \in DOMAIN transformed : Stored(obs, transformed[k])
    /\ containers_inserted = 0

\* an insert_records or upsert_users call of this run has raised
WriteErrorSeen == \E k \in DOMAIN faults : faults[k] \in {"insert", "upsert"}

\* C2: once insert_records or upsert_users has raised, the run has ended
\* with a non-zero status: no source query and no sink write follows, for
\* no window, and every row committed before is still stored.
WriteErrorIsFatal ==
    [][WriteErrorSeen' =>
         /\ pc' = "exited"
         /\ exit_code' # 0
         /\ obs \subseteq obs'
         /\ (WriteErrorSeen => queries' = queries /\ sink_calls' = sink_calls)]_vars

\* C3: once a KeyboardInterrupt has arrived during the processing of the
\* windows, the run has ended with a non-zero status, the source client is
\* closed and so is the destination connection if one was opened; no query
\* and no write follows.
InterruptAbortsCleanly ==
    interrupted =>
      /\ pc = "exited"
      /\ exit_code # 0
      /\ ~influx_open
      /\ pg_conn # "open"

\* the timestamps of the observations stored for an email
SeenAt(email) == {o.timestamp : o \in {x \in obs : x.user_email = email}}

\* C5: whenever no upsert_users call is pending, each stored user's
\* first_seen is the least and last_seen the greatest timestamp of the
\* observations submitted for the email so far, within a run and across
\* runs; no step raises a first_seen or lowers a last_seen.
SeenBoundsOnlyWiden ==
    [][/\ pc' # "upsert" =>
            \A u \in users' :
               /\ SeenAt(u.email)' # {}
               /\ \A t \in SeenAt(u.email)' : u.first_seen <= t /\ t <= u.last_seen
               /\ u.first_seen \in SeenAt(u.email)'
               /\ u.last_seen \in SeenAt(u.email)'
       /\ \A u \in users : \E v \in users' :
            /\ v.email = u.email
            /\ v.first_seen <= u.first_seen
            /\ v.last_seen >= u.last_seen]_vars

\* [0, 2) was imported, then [1, 3): a user seen at 0 in the first run and
\* at 2 in the second one has first_seen 0 and last_seen 2
SeenBoundsOnlyWidenWitness ==
    /\ run = 2
    /\ ~prev.args.dry_run
    /\ prev.args.start = 0 /\ prev.args.stop = 2
    /\ args.start = 1 /\ args.stop = 3
    /\ pc = "exited"
    /\ \E u \in users : u.first_seen = 0 /\ u.last_seen = 2

\* C6: a sink call that raises leaves both tables as they were, leaves
\* nothing pending in the transaction and hands the exception to the
\* caller; a call that returns has committed every row of its batch.
SinkCallAllOrNothing ==
    [][sink_calls' # sink_calls =>
         IF faults' # faults
         THEN /\ obs' = obs /\ users' = users
              /\ tx_obs' = obs /\ tx_users' = users
              /\ \/ pc' = "exited" /\ exit_code' # 0
                 \/ pc' = "blackout" /\ stdscr /\ ~stdscr'
         ELSE /\ obs \subseteq obs'
              /\ tx_obs' = obs' /\ tx_users' = users'
              /\ pc = "insert" =>
                   \A k \in DOMAIN transformed : Stored(obs', transformed[k])
              /\ pc = "upsert" =>
                   \A b \in extract_users_from_batch(transformed) :
                      \E u \in users' : u.email = b.email]_vars

\* insert_records has raised on a batch of several rows
SinkCallAllOrNothingWitness ==
    /\ faults = <<"insert">>
    /\ Len(transformed) >= 2
    /\ obs = {}
    /\ tx_obs = {}

\* the rows the queries of this run returned, in call order
RECURSIVE FetchedRows(_)
FetchedRows(qs) ==
    IF qs = <<>> THEN <<>>
    ELSE LET q == qs[Len(qs)]
         IN FetchedRows(SubSeq(qs, 1, Len(qs) - 1))
              \o (IF q.ok THEN query_influxdb(windows[q.w]) ELSE <<>>)

\* the rows of the windows 1..n one after the other
RECURSIVE ConcatWindows(_)
ConcatWindows(n) ==
    IF n = 0 THEN <<>>
    ELSE ConcatWindows(n - 1) \o query_influxdb(windows[n])

\* a dry run opens no destination connection and issues no write and no
\* refresh
DryRunWritesNothing ==
    /\ pg_conn = "none"
    /\ sink_calls = 0
    /\ refreshes = <<>>
    /\ obs = {} /\ users = {} /\ tx_obs = {} /\ tx_users = {}

\* the dry run has gone through its windows and returned
DryRunDone == args.dry_run /\ pc = "exited" /\ exit_code = 0

RefreshOnceAfterLoad ==
    /\ refreshes # <<>> =>
         /\ pc \in {"refresh_ca", "exited"}
         /\ ~args.dry_run
         /\ total_containers_inserted > 0
         /\ queries # <<>>
         /\ queries[Len(queries)].w = Len(windows)
         /\ queries[Len(queries)].ok
         /\ i = Len(windows)
         /\ tx_obs = obs /\ tx_users = users
         /\ \A j, k \in DOMAIN refreshes : refreshes[j] = refreshes[k] => j = k
    /\ pc = "refresh_mv" => total_containers_inserted > 0
    /\ total_containers_inserted = 0 => refreshes = <<>>

\* a run over several windows has ended after the three refreshes
RefreshOnceAfterLoadWitness ==
    /\ pc = "exited"
    /\ Len(windows) >= 2
    /\ refreshes = <<"user_sessions", "hourly_node_stats", "hourly_image_stats">>

\* the v2 transform_records has returned
NormalizedV2 == pc \in {"v2_insert", "v2_done"} /\ transform_calls # <<>>

\* the times of the raw samples of a pod in a v1 batch and in a v2 batch
RawTimes(records, pod_name) ==
    {fromisoformat(records[k].time) :
        k \in {j \in DOMAIN records : records[j].pod_name = pod_name}}
RawTimesV2(records, pod_name) ==
    {records[k].time : k \in {j \in DOMAIN records : records[j].pod_name = pod_name}}

\* age_seconds is the distance from the earliest time of ts
AgeFromEarliest(o, ts) ==
    /\ o.age_seconds >= 0
    /\ o.timestamp - o.age_seconds \in ts
    /\ \A t \in ts : o.timestamp - o.age_seconds <= t

OnlyJupyterPodsEmitted ==
    /\ Normalized \/ NormalizedV2 =>
         \A k \in DOMAIN transformed :
            /\ startswith(transformed[k].pod_name, S_jupyter)
            /\ transformed[k].pod_name # S_unknown
    /\ \A o \in obs : startswith(o.pod_name, S_jupyter)

\* C13: for a pod name "jupyter-" + u + "-" + h with no hyphen in h, the
\* emitted observation has the email u + "@illinois.edu" and the display
\* name u with hyphens turned into spaces and title-cased, and the user
\* aggregated from it and the user stored for it have user_id u, the local
\* part of the email.
IdentityFromPodName ==
    \A u \in UserParts, h \in HashParts :
       (transformed # <<>>
          /\ transformed[1].pod_name = S_jupyter \o u \o <<"-">> \o h) =>
         /\ transformed[1].user_email = u \o S_domain
         /\ transformed[1].user_name = Title(Replace(u, "-", " "))
         /\ \A b \in extract_users_from_batch(transformed) :
               b.user_id = u /\ b.email = b.user_id \o S_domain
         /\ \A x \in users : x.user_id = u /\ x.email = x.user_id \o S_domain

\* the user of the pod "jupyter-a-B-x7" has been stored: user id "a-B",
\* display name "A B"
IdentityFromPodNameWitness ==
    /\ pc = "progress"
    /\ transformed # <<>>
    /\ transformed[1].pod_name = S_jupyter \o <<"a", "-", "B", "-", "x", "7">>
    /\ transformed[1].user_name = <<"A", " ", "B">>
    /\ \E x \in users : x.user_id = <<"a", "-", "B">>

\* the positions of a character in a string
Positions(s, c) == {k \in DOMAIN s : s[k] = c}
Greatest(S) == CHOOSE k \in S : \A m \in S : m <= k

\* C14: the emitted container_version is the text after the last colon of
\* the image reference ("latest" when it has no colon) and container_base
\* is the text before that colon without everything up to and including
\* its last slash.
ContainerReferenceParsed ==
    (Normalized /\ transformed # <<>>) =>
      LET image == window_records[1].image
          colons == Positions(image, ":")
          before == IF colons = {} THEN image
                    ELSE SubSeq(image, 1, Greatest(colons) - 1)
          slashes == Positions(before, "/")
      IN /\ transformed[1].container_image = image
         /\ transformed[1].container_version =
              IF colons = {} THEN S_latest
              ELSE SubSeq(image, Greatest(colons) + 1, Len(image))
         /\ transformed[1].container_base =
              IF slashes = {} THEN before
              ELSE SubSeq(before, Greatest(slashes) + 1, Len(before))

\* the reference "r/r:v" (a path, a name, a tag) gives base "r" and
\* version "v"
ContainerReferenceParsedWitness ==
    /\ Normalized
    /\ transformed # <<>>
    /\ transformed[1].container_image = <<"r", "/", "r", ":", "v">>
    /\ transformed[1].container_base = <<"r">>
    /\ transformed[1].container_version = <<"v">>

\* the key of container_observations
KeyOf(row) == <<row.user_email, row.pod_name, row.timestamp>>
KeysOf(table) == {KeyOf(x) : x \in table}
BatchKeys(records) == {KeyOf(records[k]) : k \in DOMAIN records}

\* C15: an insert_records call returns the number of keys of its batch that
\* the table did not hold before the call, a key that is repeated in the
\* batch counted once, and its skipped count is the length of the batch
\* minus that number; for the empty batch it returns 0 and leaves the table
\* as it is.
InsertReturnsNewKeys ==
    [][(pc = "insert" /\ pc' = "upsert") =>
         /\ containers_inserted'
              = Cardinality(BatchKeys(transformed) \ KeysOf(obs))
         /\ insert_records(tx_obs, transformed).returned = containers_inserted'
         /\ insert_records(tx_obs, transformed).rows_skipped
              = Len(transformed) - containers_inserted'
         /\ KeysOf(obs') = KeysOf(obs) \cup BatchKeys(transformed)
         /\ insert_records(tx_obs, <<>>)
              = [view |-> tx_obs, returned |-> 0, rows_skipped |-> 0]]_vars

\* a batch of three rows, one key stored before and one key twice in the
\* batch: one row is counted as inserted
InsertReturnsNewKeysWitness ==
    /\ pc = "upsert"
    /\ Len(transformed) = 3
    /\ Cardinality(BatchKeys(transformed)) = 2
    /\ containers_inserted = 1

\* C16: a stored observation is never changed or removed by a later
\* insert_records call that carries a row with its key and other values in
\* the other columns, and the table never holds two rows with one key.
ObservationsNeverUpdated ==
    [][/\ \A o \in obs : o \in obs'
       /\ \A a, b \in obs' : SameKey(a, b) => a = b]_vars

\* the second run submits a row whose key is stored with another
\* age_seconds
ObservationsNeverUpdatedWitness ==
    /\ run = 2
    /\ pc = "upsert"
    /\ \E k \in DOMAIN transformed : \E o \in obs :
          /\ SameKey(o, transformed[k])
          /\ o.age_seconds # transformed[k].age_seconds

\* a query_influxdb call of this run has raised
QueryErrorSeen == \E k \in DOMAIN faults : faults[k] = "query"

\* C17: once query_influxdb has raised, the run has ended with a non-zero
\* status and both the source client and the destination connection are
\* closed; no window is fetched after the error, neither a later one nor an
\* earlier one again.
QueryErrorAborts ==
    [][QueryErrorSeen' =>
         /\ pc' = "exited"
         /\ exit_code' # 0
         /\ ~influx_open'
         /\ pg_conn' # "open"
         /\ (QueryErrorSeen => queries' = queries)]_vars

\* C18: in every run the queries are issued in increasing window order,
\* no window is queried twice, a run that completes has queried every
\* window once, and a window is queried only when nothing of the windows
\* before it is left to commit.
WindowsInOrderOnce ==
    /\ \A j, k \in DOMAIN queries : j < k => queries[j].w < queries[k].w
    /\ (pc = "exited" /\ exit_code = 0) =>
          \A w \in DOMAIN windows :
             Cardinality({k \in DOMAIN queries : queries[k].w = w}) = 1
    /\ pc = "fetch" => tx_obs = obs /\ tx_users = users

\* C19: when a live run has ended, every user_email of a committed
\* observation has a row in users: no window is left with its observations
\* committed and its user summaries not.
NoWindowHalfCommitted ==
    (pc = "exited" /\ ~args.dry_run) =>
       \A o \in obs : \E u \in users : u.email = o.user_email

\* C20: a window's query is issued only from a check that saw a minute in
\* 3..58, unless the check is disabled; with the check disabled the driver
\* does not wait at any minute; the default window blocks exactly the
\* minutes 59, 0, 1 and 2.
BlackoutRespected ==
    /\ (pc = "fetch" /\ ~args.skip_time_check) => minute \in 3..58
    /\ (pc = "blackout" /\ ~args.skip_time_check /\ minute \in {59, 0, 1, 2}) =>
          ENABLED BlackoutWait /\ ~ENABLED BlackoutPass
    /\ (pc = "blackout" /\ args.skip_time_check) =>
          ENABLED BlackoutPass /\ ~ENABLED BlackoutWait
    /\ is_in_blocked_time_window <=> minute \in {59, 0, 1, 2}

\* a run with the check on has fetched the first window and is held before
\* the second one at minute 1
BlackoutRespectedWitness ==
    /\ ~args.skip_time_check
    /\ pc = "blackout"
    /\ i = 2
    /\ minute = 1
    /\ queries = <<[w |-> 1, ok |-> TRUE]>>

\* the raw sample lies in window w of this run
InWindow(r, w) ==
    /\ fromisoformat(r.time) >= windows[w][1]
    /\ fromisoformat(r.time) < windows[w][2]

\* C21: in a live run every transform_records call is made on the rows of
\* one window, and while the loop is at window i the raw samples the driver
\* holds in all_records are samples of window i: none of an earlier window
\* is left when the next one is fetched.
LiveRunIsStreaming ==
    ~args.dry_run =>
      /\ \A k \in DOMAIN transform_calls : \E w \in DOMAIN windows :
            transform_calls[k] = query_influxdb(windows[w])
      /\ InLoop => \A k \in DOMAIN all_records : InWindow(all_records[k], i)

\* the call that raised last is a refresh
RefreshErrorSeen ==
    /\ faults # <<>>
    /\ faults[Len(faults)] \in {"refresh_mv", "refresh_ca"}

\* C22: when the user_sessions refresh or a continuous-aggregate refresh
\* raises, the run ends with status 0 and the destination connection
\* closed, the committed observations and users are what they were, and
\* refresh_continuous_aggregates leaves autocommit as it found it, whether
\* it succeeded or not.
RefreshFailureNotFatal ==
    [][/\ (faults' # faults /\ RefreshErrorSeen') =>
            /\ pc' = "exited"
            /\ exit_code' = 0
            /\ pg_conn' = "closed"
            /\ ~influx_open'
            /\ obs' = obs
            /\ users' = users
       /\ pc = "refresh_ca" => autocommit' = autocommit]_vars

\* the first of the two continuous aggregates was refreshed, the second
\* one raised, and the run has ended with status 0
RefreshFailureNotFatalWitness ==
    /\ pc = "exited"
    /\ exit_code = 0
    /\ faults = <<"refresh_ca">>
    /\ refreshes = <<"user_sessions", "hourly_node_stats">>
    /\ pg_conn = "closed"
    /\ obs # {}

\* C23: no upsert_users call changes the user_id or the full_name of a
\* stored user, whether the importer or another producer created the row:
\* a conflicting upsert changes first_seen and last_seen only, every email
\* keeps one row, and a row the importer creates has the local part of the
\* email as full_name.
NamesSetOnFirstInsert ==
    [][/\ \A u \in users : \E v \in users' :
             /\ v.email = u.email
             /\ v.user_id = u.user_id
             /\ v.full_name = u.full_name
       /\ \A v, w \in users' : v.email = w.email => v = w
       /\ \A v \in users' :
             (\A u \in users : u.email # v.email) =>
                v.full_name \o S_domain = v.email]_vars

\* the row the collector created for user "a" has been widened to the
\* samples of times 0 and 2 and has kept the collector's id and name
NamesSetOnFirstInsertWitness ==
    /\ pc = "progress"
    /\ \E u \in users :
          /\ u.email = <<"a">> \o S_domain
          /\ u.user_id = <<"u", "7">>
          /\ u.full_name = <<"A", "n", "n">>
          /\ u.first_seen = 0
          /\ u.last_seen = 2

\* the version the image reference spells: the text after its last colon,
\* "latest" without a colon
VersionOfImage(image) ==
    IF Positions(image, ":") = {} THEN S_latest
    ELSE SubSeq(image, Greatest(Positions(image, ":")) + 1, Len(image))

\* the version a raw sample is to be stored with
VersionOfSample(time, r) ==
    [timestamp |-> time, pod_name |-> r.pod_name, container_image |-> r.image,
     container_version |-> IF r.version \notin {S_none, S_unknown}
                           THEN r.version
                           ELSE VersionOfImage(r.image)]

\* C24: in both normalizers the container_version of every emitted
\* observation is the version tag of its raw sample when the tag is present,
\* not empty and not "unknown", and the version of the image reference
\* otherwise.
VersionTagTakesPrecedence ==
    /\ Normalized =>
         \A k \in DOMAIN transformed : \E j \in DOMAIN window_records :
            VersionOfSample(fromisoformat(window_records[j].time),
                            window_records[j])
              = [f \in {"timestamp", "pod_name", "container_image",
                        "container_version"} |-> transformed[k][f]]
    /\ NormalizedV2 =>
         \A k \in DOMAIN transformed : \E j \in DOMAIN all_records :
            VersionOfSample(all_records[j].time, all_records[j])
              = [f \in {"timestamp", "pod_name", "container_image",
                        "container_version"} |-> transformed[k][f]]

\* C25: also when the collector commits rows while insert_records runs,
\* what insert_records returns is between 0 and the length of its batch,
\* the run's total_containers_inserted is the number of observations the
\* run has added to the store, and the skipped count derived from the
\* return value is not negative.
InsertedCountBesideWriters ==
    /\ pc = "upsert" =>
         /\ containers_inserted >= 0
         /\ containers_inserted <= Len(transformed)
         /\ Len(transformed) - containers_inserted >= 0
    /\ total_containers_inserted = Cardinality(obs \ CollectorRows)

\* this live run has completed, after a live run over the same source and
\* range with another window size into another empty store has
SecondSizeDone ==
    /\ run >= 2
    /\ prev.completed
    /\ prev.args.time_window # args.time_window
    /\ pc = "exited"
    /\ exit_code = 0

WithoutAge(o) == [o EXCEPT !.age_seconds = 0]

\* the times of the source's samples of a pod that lie in the window of
\* this run that holds the instant t
TimesInWindowOf(pod_name, t) ==
    {fromisoformat(source[k].time) :
        k \in {j \in DOMAIN source :
                 /\ source[j].pod_name = pod_name
                 /\ \E w \in DOMAIN windows :
                       /\ InWindow(source[j], w)
                       /\ windows[w][1] <= t /\ t < windows[w][2]}}

RECURSIVE EmittedBy(_)
EmittedBy(calls) ==
    IF calls = <<>> THEN 0
    ELSE EmittedBy(Tail(calls)) + Len(transform_records(Head(calls)).transformed)

\* C27: when a dry run has completed and a live run with the same source,
\* range and window size has completed too, the number of observations the
\* dry run reported is the number the live run has handed to the sink over
\* all its windows, and the dry run's skip and duplicate counts are the
\* live run's accumulated totals.
DryRunAgreesWithLive ==
    (/\ run >= 2
     /\ prev.args.dry_run /\ prev.completed
     /\ ~args.dry_run /\ pc = "exited" /\ exit_code = 0) =>
       /\ prev.stats.transformed = EmittedBy(transform_calls)
       /\ prev.stats.skipped_no_pod_name = total_stats.skipped_no_pod_name
       /\ prev.stats.skipped_not_jupyter = total_stats.skipped_not_jupyter
       /\ prev.stats.duplicates_in_batch = total_stats.duplicates_in_batch

\* C28: for every range and every window size parse_duration_to_seconds
\* returns for a --time-window argument, "0h" and "-1h" included,
\* generate_time_windows terminates: every iteration of its loop either
\* ends it or leaves less of the range to cover, and the list it has built
\* has no more windows than the range has seconds.
WindowGenerationTerminates ==
    [][pc = "windowing" =>
         /\ pc' = "windowing" => args.stop - current' < args.stop - current
         /\ Len(windows') <= Max2(args.stop - args.start, 0)]_vars

\* C29: every run reaches a terminal state, a blackout wait ends once the
\* minute has left 59, 0, 1 and 2, and a run executes no more window
\* iterations (each issues one query) than there are windows.
RunTerminates ==
    /\ <>(pc = "exited")
    /\ [](pc = "blackout" => <>(pc # "blackout"))
    /\ [](Len(queries) <= Len(windows))

\* the columns of an observation the two importers are to agree on
ContractColumns(o) ==
    [f \in {"timestamp", "user_email", "user_name", "container_base",
            "container_version", "age_seconds", "pod_name"} |-> o[f]]

\* C30: for the same running raw samples the v1 and the v2 normalizer emit
\* the same observations: the same samples are kept after the prefix filter
\* and the deduplication, with the same user_email, user_name,
\* container_base, container_version, age_seconds and pod_name.
SameOutputContract ==
    (run = 2 /\ NormalizedV2) =>
       [k \in DOMAIN transformed |-> ContractColumns(transformed[k])]
         = [k \in DOMAIN prev.transformed |->
              ContractColumns(prev.transformed[k])]

====
